---- MODULE Spec2Model ----
(***************************************************************************)
(* Laptop decision-support system: SAW scoring engine (saw_method.py) and  *)
(* the chat-driven preference extraction layer (ai_assistant.py).          *)
(*                                                                         *)
(* Numbers: the star-rating conversion is modelled in IEEE doubles, bit    *)
(* for bit.  pandas computes in IEEE doubles too; the scoring part of this *)
(* model computes in exact rationals <<n, d>> (lowest terms, d > 0).  The   *)
(* only exactness statements made about them are x / x = 1 and 0 / x = 0,  *)
(* which IEEE division satisfies as well.                                  *)
(***************************************************************************)
EXTENDS Integers, Sequences, FiniteSets, TLC

VARIABLES
    values,             \* normalizer input: one criterion column (pd.Series)
    normalized,         \* normalizer output column
    npc,                \* "input" | "benefit" | "cost"
    df,                 \* scorer input: sequence of rows (column -> raw value)
    weights,            \* scorer input: criterion column -> weight (rational)
    scores,             \* calculate_saw_scores: one score per row
    decision_matrix,    \* calculate_saw_scores: raw values of the used columns
    normalized_matrix,  \* calculate_saw_scores: normalized values
    ranked,             \* rank_alternatives: rows [idx, SAW_Score, Rank]
    top_n,              \* rank_alternatives argument (None or a number)
    spc,                \* "input" | "scored" | "ranked" | "rescored" | "reranked"
    tie_break,          \* SpecRepeat: the order in which the sort leaves rows of equal score
    catalogue,          \* SpecFilter: the loaded laptops (rows with a Category)
    selected_cat,       \* SpecFilter: the category chosen in the session
    app_filters,        \* SpecFilter: the ranges of the request ({}: none stored)
    notice,             \* SpecFilter: the "no matches" text shown ("": none)
    scoring_calls,      \* SpecFilter: calls of calculate_saw_scores made by the request
    fpc,                \* "input" | "chat" | "manual"
    ai_filters,         \* convert_ai_filters_to_app_filters argument: the extracted filters
    data_stats,         \* convert_ai_filters_to_app_filters argument: get_data_statistics(df)
    cpc,                \* "loaded" | "preprocessed" | "input" | "converted" | "filtered"
    dataset,            \* SpecStats: the data frame of the loaded data set
    filtered_df,        \* SpecStats: the rows left by the range filters (None: not applied)
    laptop,             \* generate_explanation argument: the chosen alternative
    user_prefs,         \* generate_explanation argument: the preference facts
    all_candidates,     \* generate_explanation argument: the candidate pool
    rank,               \* generate_explanation argument
    explanation,        \* what generate_explanation built (None: not called)
    memory,             \* the session's ConversationMemory
    user_message,       \* parse_user_message argument: the user's utterance
    api_result,         \* what call_free_llm returned (None: not called)
    result,             \* what parse_user_message returned (None: no call yet)
    api_calls,          \* remote calls made by the last parse_user_message
    asked_log,          \* topics the local gate asked about since the session began
    memory_calls,       \* SpecMemory: the method calls made on the memory since its creation
    ai_weights,         \* convert_ai_weights_to_app_weights argument: a ratings dict
    priorities,         \* manual mode: the six priority sliders
    normalized_weights, \* the weights computed from them (None: not yet)
    wpc                 \* "ai" | "converted" | "manual" | "summarized"

normVars == <<values, normalized, npc>>
explainVars == <<laptop, user_prefs, all_candidates, rank, explanation>>
statsVars == <<dataset, filtered_df>>
filterVars ==
    <<catalogue, selected_cat, app_filters, notice, scoring_calls, fpc, ai_filters, data_stats,
      cpc, explainVars, statsVars>>
sawVars ==
    <<df, weights, scores, decision_matrix, normalized_matrix, ranked, top_n, spc, tie_break,
      filterVars>>
chatVars == <<memory, user_message, api_result, result, api_calls, asked_log, memory_calls>>
weightVars == <<ai_weights, priorities, normalized_weights, wpc>>
vars == <<normVars, sawVars, chatVars, weightVars>>

\* Python's None; an optional number is None or the one-element tuple <<n>>
None == <<>>
Some(n) == <<n>>

(***************************************************************************)
(* Bounds of the model.                                                    *)
(***************************************************************************)
MaxLen == 3     \* longest criterion column given to a normalizer
MaxVal == 2     \* largest raw criterion value
MaxRows == 2    \* most alternatives in a scored data frame
MaxRanked == 3  \* most alternatives given to rank_alternatives
WDen == 2       \* weights are drawn as k / WDen, k in 0..WDen
MaxRated == 2   \* most keys of a ratings dict that has keys missing
MaxStar == 6    \* largest number given as a star rating
MaxJuta == 12   \* largest budget, in juta, named in a fallback utterance
MaxCalls == 4   \* most method calls made on one memory
MaxRepeatVal == 1   \* largest raw criterion value of a frame that is scored twice
MaxCatalogue == 2   \* most laptops of a catalogue that is filtered
MaxFilterVal == 2   \* largest bound of a range filter
MaxSupplied == 2   \* most keys of an extracted filters dict
MaxCandidates == 3   \* most rows of the candidate pool of an explanation

(***************************************************************************)
(* Exact rational arithmetic.                                              *)
(***************************************************************************)
Abs(x) == IF x < 0 THEN -x ELSE x

RECURSIVE GCD(_, _)
GCD(a, b) == IF b = 0 THEN a ELSE GCD(b, a % b)

Rat(n, d) ==
    LET s == IF d < 0 THEN -1 ELSE 1
        g == GCD(Abs(n), Abs(d))
    IN  <<(s * n) \div g, (s * d) \div g>>

RatAdd(p, q) == Rat(p[1] * q[2] + q[1] * p[2], p[2] * q[2])
RatMul(p, q) == Rat(p[1] * q[1], p[2] * q[2])
RatDiv(p, q) == Rat(p[1] * q[2], p[2] * q[1])
RatLeq(p, q) == p[1] * q[2] <= q[1] * p[2]
RatLt(p, q) == p[1] * q[2] < q[1] * p[2]
Zero == Rat(0, 1)
One == Rat(1, 1)

(***************************************************************************)
(* saw_method.py: the normalizers.                                         *)
(***************************************************************************)
SeqMax(s) == CHOOSE m \in {s[i] : i \in DOMAIN s} : \A i \in DOMAIN s : s[i] <= m
SeqMin(s) == CHOOSE m \in {s[i] : i \in DOMAIN s} : \A i \in DOMAIN s : m <= s[i]

\* values.replace(0, 0.001)
Epsilon == Rat(1, 1000)
values_safe(x) == IF x = 0 THEN Epsilon ELSE Rat(x, 1)

\* Mutant: the ratio of the benefit formula inverted (max(x) / x[i])
normalize_benefit_inverted(vals) ==
    LET max_val == SeqMax(vals)
    IN  IF max_val = 0
        THEN [i \in DOMAIN vals |-> Zero]
        ELSE [i \in DOMAIN vals |-> RatDiv(Rat(max_val, 1), values_safe(vals[i]))]

\* Mutant: the zero-maximum branch returns 1 for every row
normalize_benefit_ones(vals) ==
    LET max_val == SeqMax(vals)
    IN  IF max_val = 0
        THEN [i \in DOMAIN vals |-> One]
        ELSE [i \in DOMAIN vals |-> RatDiv(Rat(vals[i], 1), Rat(max_val, 1))]

normalize_benefit(vals) ==
    LET max_val == SeqMax(vals)
    IN  IF max_val = 0
        THEN [i \in DOMAIN vals |-> Zero]
        ELSE [i \in DOMAIN vals |-> RatDiv(Rat(vals[i], 1), Rat(max_val, 1))]

\* Mutant: the cost column is normalized as a benefit column
normalize_cost_as_benefit(vals) == normalize_benefit(vals)

normalize_cost(vals) ==
    LET min_val == SeqMin(vals)
    IN  [i \in DOMAIN vals |-> RatDiv(Rat(min_val, 1), values_safe(vals[i]))]

(***************************************************************************)
(* saw_method.py: criteria configuration, decision and normalized matrix.  *)
(***************************************************************************)
CriteriaConfigColumns ==
    {"price_numeric", "ram_numeric", "ssd_numeric",
     "rating_numeric", "display_numeric", "gpu_numeric"}

\* CRITERIA_CONFIG[col]['type']
CRITERIA_CONFIG(col) == IF col = "price_numeric" THEN "cost" ELSE "benefit"

\* The columns of the scored data frames, and the keys a weight mapping may
\* name ("gpu_numeric" is a configured criterion that these frames lack).
DfColumns == {"price_numeric", "ram_numeric"}
WeightKeys == {"price_numeric", "ram_numeric", "gpu_numeric"}

Column(frame, col) == [i \in DOMAIN frame |-> frame[i][col]]

\* criteria_columns = [col for col in weights.keys() if col in df.columns]
criteria_columns(w) == (DOMAIN w) \cap DfColumns

\* df[criteria_columns].copy()
create_decision_matrix(frame, cols) ==
    [i \in DOMAIN frame |-> [c \in cols |-> frame[i][c]]]

normalize_column(matrix, col) ==
    IF col \in CriteriaConfigColumns
    THEN IF CRITERIA_CONFIG(col) = "benefit"
         THEN normalize_benefit(Column(matrix, col))
         ELSE normalize_cost(Column(matrix, col))
    ELSE normalize_benefit(Column(matrix, col))

normalize_matrix(matrix, cols) ==
    LET byCol == [c \in cols |-> normalize_column(matrix, c)]
    IN  [i \in DOMAIN matrix |-> [c \in cols |-> byCol[c][i]]]

\* Mutant: the weight is left out of the accumulation
RECURSIVE UnweightedSum(_, _, _)
UnweightedSum(nrow, w, cols) ==
    IF cols = {} THEN Zero
    ELSE LET c == CHOOSE x \in cols : TRUE
         IN  RatAdd(nrow[c], UnweightedSum(nrow, w, cols \ {c}))

\* scores += normalized_matrix[col] * weight, over criteria_columns
RECURSIVE WeightedSum(_, _, _)
WeightedSum(nrow, w, cols) ==
    IF cols = {} THEN Zero
    ELSE LET c == CHOOSE x \in cols : TRUE
         IN  RatAdd(RatMul(nrow[c], w[c]), WeightedSum(nrow, w, cols \ {c}))

\* Mutant: "scores =" in place of "scores +=": only one criterion is kept
score_rows_overwritten(nm, w, cols) ==
    [i \in DOMAIN nm |->
        IF cols = {} THEN Zero
        ELSE LET c == CHOOSE x \in cols : TRUE IN RatMul(nm[i][c], w[c])]

score_rows(nm, w, cols) == [i \in DOMAIN nm |-> WeightedSum(nm[i], w, cols)]

(***************************************************************************)
(* saw_method.py: rank_alternatives.  sort_values is called without kind=, *)
(* so pandas sorts with its default 'quicksort', which is not a stable     *)
(* sort: any order of the rows with non-increasing scores may come out.    *)
(***************************************************************************)
Perms(n) == {p \in [1..n -> 1..n] : \A i, j \in 1..n : i # j => p[i] # p[j]}

sort_values(sc) ==
    {p \in Perms(Len(sc)) :
        \A k \in 1..(Len(sc) - 1) : RatLeq(sc[p[k + 1]], sc[p[k]])}

\* The sort is a fixed algorithm: on a given column it leaves rows of equal
\* score in one order, unspecified but the same at every call.  order is
\* that order, as a permutation of the row numbers.
PositionIn(order, i) == CHOOSE k \in DOMAIN order : order[k] = i

sort_values_as(sc, order) ==
    CHOOSE p \in sort_values(sc) :
        \A a, b \in 1..Len(sc) :
            (a < b /\ sc[p[a]] = sc[p[b]]) => PositionIn(order, p[a]) < PositionIn(order, p[b])

\* Mutant: "result = df" in place of "result = df.copy()": the score column
\* is written into the caller's frame
frame_after_rank_in_place(frame, sc) ==
    [i \in DOMAIN frame |->
        [c \in DOMAIN frame[i] \cup {"SAW_Score"} |->
            IF c = "SAW_Score" THEN sc[i] ELSE frame[i][c]]]

\* the caller's frame after rank_alternatives: result = df.copy() takes the
\* copy that the later assignments change
frame_after_rank(frame, sc) == frame

\* result['Rank'] = range(1, len(result) + 1)
with_rank(sc, p) ==
    [k \in 1..Len(sc) |-> [idx |-> p[k], SAW_Score |-> sc[p[k]], Rank |-> k]]

\* Mutant: the last top_n rows in place of the first (tail for head)
head_as_tail(s, n) ==
    IF n = None THEN s
    ELSE SubSeq(s, (IF n[1] < Len(s) THEN Len(s) - n[1] ELSE 0) + 1, Len(s))

\* result.head(top_n)
head(s, n) ==
    IF n = None THEN s ELSE SubSeq(s, 1, IF n[1] < Len(s) THEN n[1] ELSE Len(s))

\* validate_weights: total = sum(weights.values())
RECURSIVE SumOver(_, _)
SumOver(w, ks) ==
    IF ks = {} THEN Zero
    ELSE LET c == CHOOSE x \in ks : TRUE IN RatAdd(w[c], SumOver(w, ks \ {c}))

weights_total(w) == SumOver(w, DOMAIN w)

(***************************************************************************)
(* Inputs.                                                                 *)
(***************************************************************************)
Columns == UNION {[1..n -> 0..MaxVal] : n \in 1..MaxLen}
Rows == [DfColumns -> 0..MaxVal]
Frames == UNION {[1..n -> Rows] : n \in 1..MaxRows}
WeightMaps ==
    UNION {[ks -> {Rat(k, WDen) : k \in 0..WDen}] :
             ks \in {WeightKeys, {"ram_numeric", "gpu_numeric"}}}

NormIdle == values = <<>> /\ normalized = <<>> /\ npc = "idle"
ExplainIdle ==
    /\ laptop = <<>> /\ user_prefs = <<>> /\ all_candidates = <<>> /\ rank = 0
    /\ explanation = None

StatsIdle == dataset = <<>> /\ filtered_df = None

FilterIdle ==
    /\ ExplainIdle /\ StatsIdle
    /\ catalogue = <<>> /\ selected_cat = "" /\ app_filters = <<>> /\ notice = ""
    /\ scoring_calls = 0 /\ fpc = "idle"
    /\ ai_filters = <<>> /\ data_stats = <<>> /\ cpc = "idle"

SawIdle ==
    /\ FilterIdle
    /\ df = <<>> /\ weights = <<>> /\ scores = <<>> /\ decision_matrix = <<>>
    /\ normalized_matrix = <<>> /\ ranked = <<>> /\ top_n = None /\ spc = "idle"
    /\ tie_break = <<>>

ChatIdle ==
    /\ memory = <<>> /\ user_message = "" /\ api_result = None /\ result = None
    /\ api_calls = 0 /\ asked_log = <<>> /\ memory_calls = <<>>

WeightsIdle ==
    /\ ai_weights = <<>> /\ priorities = <<>> /\ normalized_weights = None /\ wpc = "idle"

(***************************************************************************)
(* SpecNorm: a normalizer applied to one criterion column.                 *)
(***************************************************************************)
NormInit ==
    /\ values \in Columns /\ normalized = <<>> /\ npc = "input"
    /\ SawIdle /\ ChatIdle /\ WeightsIdle

NormalizeBenefit ==
    /\ npc = "input"
    /\ normalized' = normalize_benefit(values)
    /\ npc' = "benefit"
    /\ UNCHANGED <<values, sawVars, chatVars, weightVars>>

NormalizeCost ==
    /\ npc = "input"
    /\ normalized' = normalize_cost(values)
    /\ npc' = "cost"
    /\ UNCHANGED <<values, sawVars, chatVars, weightVars>>

NormNext == NormalizeBenefit \/ NormalizeCost
SpecNorm == NormInit /\ [][NormNext]_vars

(***************************************************************************)
(* SpecSaw: calculate_saw_scores followed by rank_alternatives.            *)
(***************************************************************************)
SawInit ==
    /\ df \in Frames /\ weights \in WeightMaps
    /\ scores = <<>> /\ decision_matrix = <<>> /\ normalized_matrix = <<>>
    /\ ranked = <<>> /\ top_n = None /\ spc = "input" /\ tie_break = <<>>
    /\ FilterIdle /\ NormIdle /\ ChatIdle /\ WeightsIdle

CalculateSawScores ==
    /\ spc = "input"
    /\ LET cols == criteria_columns(weights)
           dm == create_decision_matrix(df, cols)
           nm == normalize_matrix(dm, cols)
       IN  /\ decision_matrix' = dm
           /\ normalized_matrix' = nm
           /\ scores' = score_rows(nm, weights, cols)
    /\ spc' = "scored"
    /\ UNCHANGED <<df, weights, ranked, top_n, tie_break, filterVars, normVars, chatVars, weightVars>>

SawNext == CalculateSawScores
SpecSaw == SawInit /\ [][SawNext]_vars

(***************************************************************************)
(* SpecRank: rank_alternatives applied to a column of scores.              *)
(***************************************************************************)
ScoreColumns == UNION {[1..n -> {Rat(k, WDen) : k \in 0..WDen}] : n \in 1..MaxRanked}

RankInit ==
    /\ scores \in ScoreColumns
    /\ df = <<>> /\ weights = <<>> /\ decision_matrix = <<>> /\ normalized_matrix = <<>>
    /\ ranked = <<>> /\ top_n = None /\ spc = "scored" /\ tie_break = <<>>
    /\ FilterIdle /\ NormIdle /\ ChatIdle /\ WeightsIdle

RankAlternatives ==
    /\ spc = "scored"
    /\ \E n \in {None} \cup {Some(k) : k \in 0..(MaxRanked + 1)}, p \in sort_values(scores) :
          /\ top_n' = n
          /\ ranked' = head(with_rank(scores, p), n)
    /\ spc' = "ranked"
    /\ UNCHANGED <<df, weights, scores, decision_matrix, normalized_matrix, tie_break, filterVars,
                   normVars, chatVars, weightVars>>

RankNext == RankAlternatives
SpecRank == RankInit /\ [][RankNext]_vars

(***************************************************************************)
(* ai_assistant.py: text helpers.  A message is a string; re and the "in"  *)
(* operator are modelled character by character.                           *)
(***************************************************************************)
CharAt(s, i) == SubSeq(s, i, i)

UpperAlphabet == "ABCDEFGHIJKLMNOPQRSTUVWXYZ"
LowerAlphabet == "abcdefghijklmnopqrstuvwxyz"
Digits == "0123456789"

IndexIn(alphabet, c) ==
    IF \E i \in 1..Len(alphabet) : CharAt(alphabet, i) = c
    THEN CHOOSE i \in 1..Len(alphabet) : CharAt(alphabet, i) = c
    ELSE 0

\* str.lower()
RECURSIVE lower(_)
lower(s) ==
    IF s = "" THEN ""
    ELSE LET c == Head(s)
             k == IndexIn(UpperAlphabet, c)
         IN  (IF k = 0 THEN c ELSE CharAt(LowerAlphabet, k)) \o lower(Tail(s))

\* s[i:].startswith(word), i counted from 1
StartsAt(s, i, word) ==
    /\ i >= 1 /\ i + Len(word) - 1 <= Len(s)
    /\ SubSeq(s, i, i + Len(word) - 1) = word

\* word in message_lower
Contains(s, word) == \E i \in 1..Len(s) : StartsAt(s, i, word)

\* any(word in message_lower for word in keywords)
ContainsAny(s, keywords) == \E w \in keywords : Contains(s, w)

IsDigit(c) == IndexIn(Digits, c) # 0
IsSpace(c) == c = " "
\* \w of re: letters, digits and the underscore
IsWordChar(c) ==
    IndexIn(LowerAlphabet, c) # 0 \/ IndexIn(UpperAlphabet, c) # 0 \/ IsDigit(c) \/ c = "_"

\* the end of the longest run of digits (\d+) or of spaces (\s*) starting at i
\* (i - 1 when the run is empty)
DigitRunEnd(s, i) ==
    CHOOSE j \in (i - 1)..Len(s) :
        /\ \A k \in i..j : IsDigit(CharAt(s, k))
        /\ (j = Len(s) \/ ~IsDigit(CharAt(s, j + 1)))

SpaceRunEnd(s, i) ==
    CHOOSE j \in (i - 1)..Len(s) :
        /\ \A k \in i..j : IsSpace(CharAt(s, k))
        /\ (j = Len(s) \/ ~IsSpace(CharAt(s, j + 1)))

\* a unit alternative at position i; "m\b" needs a word boundary after the m
UnitAt(s, i, units, bounded) ==
    \/ \E u \in units : StartsAt(s, i, u)
    \/ \E u \in bounded :
          /\ StartsAt(s, i, u)
          /\ (i + Len(u) > Len(s) \/ ~IsWordChar(CharAt(s, i + Len(u))))

\* re.search(r'(\d+)\s*(unit|...|m\b)', s): the start positions of a match.
\* \d+ and \s* are greedy, and a shorter run can never be followed by a unit,
\* so a match at i takes the whole digit run and the whole space run.
MatchStarts(s, units, bounded) ==
    {i \in 1..Len(s) :
        /\ IsDigit(CharAt(s, i))
        /\ UnitAt(s, SpaceRunEnd(s, DigitRunEnd(s, i) + 1) + 1, units, bounded)}

RECURSIVE int(_)
int(digits) ==
    IF digits = "" THEN 0
    ELSE 10 * int(SubSeq(digits, 1, Len(digits) - 1))
            + (IndexIn(Digits, CharAt(digits, Len(digits))) - 1)

SetMin(S) == CHOOSE m \in S : \A x \in S : m <= x

\* match.group(1) of the leftmost match
Group1(s, units, bounded) ==
    LET i == SetMin(MatchStarts(s, units, bounded))
    IN  SubSeq(s, i, DigitRunEnd(s, i))

(***************************************************************************)
(* Python values held in dicts and results: tagged, since the remote reply *)
(* decides the type of what json.loads returns.                            *)
(***************************************************************************)
PyNone == [t |-> "none", v |-> <<>>]
Num(n) == [t |-> "num", v |-> <<n>>]
Str(s) == [t |-> "str", v |-> <<s>>]
Bool(b) == [t |-> "bool", v |-> <<b>>]
List(q) == [t |-> "list", v |-> q]
Dict(f) == [t |-> "dict", v |-> f]
EmptyDict == Dict(<<>>)
EmptyList == List(<<>>)

\* bool(x)
Truthy(x) ==
    CASE x.t = "none" -> FALSE
      [] x.t = "num" -> x.v[1] # 0
      [] x.t = "str" -> x.v[1] # ""
      [] x.t = "bool" -> x.v[1]
      [] x.t = "list" -> x.v # <<>>
      [] x.t = "dict" -> DOMAIN x.v # {}

\* d.get(key, default) and d.get(key)
Get(d, key, default) == IF key \in DOMAIN d.v THEN d.v[key] ELSE default
GetOrNone(d, key) == Get(d, key, PyNone)

\* d[key] = value
Put(d, key, value) ==
    Dict([k \in DOMAIN d.v \cup {key} |-> IF k = key THEN value ELSE d.v[k]])

\* d.update(other)
DictUpdate(d, other) ==
    Dict([k \in DOMAIN d.v \cup DOMAIN other.v |->
            IF k \in DOMAIN other.v THEN other.v[k] ELSE d.v[k]])

(***************************************************************************)
(* ai_assistant.py: ConversationMemory.  A memory is the record            *)
(* [messages, user_preferences, recommended_laptops, clarifications_asked].*)
(***************************************************************************)
NewMemory ==
    [messages |-> <<>>, user_preferences |-> EmptyDict,
     recommended_laptops |-> <<>>, clarifications_asked |-> <<>>]

InSeq(x, q) == \E i \in DOMAIN q : q[i] = x

\* Mutant: the topic is appended without looking at the list
mark_clarification_asked_unguarded(mem, topic) ==
    [mem EXCEPT !.clarifications_asked = Append(@, topic)]

mark_clarification_asked(mem, topic) ==
    IF ~InSeq(topic, mem.clarifications_asked)
    THEN [mem EXCEPT !.clarifications_asked = Append(@, topic)]
    ELSE mem

\* Mutant: the asked list is never consulted
should_ask_clarification_always(mem, topic) == TRUE

should_ask_clarification(mem, topic) == ~InSeq(topic, mem.clarifications_asked)

update_preferences(mem, new_prefs) ==
    [mem EXCEPT !.user_preferences = DictUpdate(@, new_prefs)]

\* Mutant: the name is appended without looking at the list
add_recommended_laptop_unguarded(mem, laptop_name) ==
    [mem EXCEPT !.recommended_laptops = Append(@, laptop_name)]

add_recommended_laptop(mem, laptop_name) ==
    IF ~InSeq(laptop_name, mem.recommended_laptops)
    THEN [mem EXCEPT !.recommended_laptops = Append(@, laptop_name)]
    ELSE mem

(***************************************************************************)
(* ai_assistant.py: check_needs_clarification.                             *)
(***************************************************************************)
GateBudgetUnits == {"juta", "jt", "ribu", "rb", "million"}
BoundedUnits == {"m"}
budget_vague_keywords == {"murah", "mahal", "terjangkau", "budget", "hemat", "ekonomis"}
use_case_keywords ==
    {"gaming", "game", "editing", "edit", "video", "render",
     "coding", "programming", "ngoding", "office", "kantor",
     "kuliah", "mahasiswa", "pelajar", "kerja", "desain", "design"}
vague_request_keywords ==
    {"bagus", "recommended", "terbaik", "worth it", "rekomen",
     "suggest", "saran", "pilih", "cari", "butuh laptop"}

BudgetQuestion ==
    "Berapa budget yang Anda siapkan untuk laptop ini? (dalam jutaan rupiah, misal: 10 juta)"
UseCaseQuestion ==
    "Laptop ini akan digunakan untuk apa? (contoh: gaming, editing video, coding, office, kuliah)"

has_explicit_budget(message_lower) ==
    MatchStarts(message_lower, GateBudgetUnits, BoundedUnits) # {}

has_vague_budget(message_lower) ==
    ContainsAny(message_lower, budget_vague_keywords) /\ ~has_explicit_budget(message_lower)

has_use_case(message_lower) == ContainsAny(message_lower, use_case_keywords)

has_vague_request(message_lower) ==
    /\ ContainsAny(message_lower, vague_request_keywords)
    /\ ~has_use_case(message_lower)

(***************************************************************************)
(* ai_assistant.py: parse_simple_fallback.                                 *)
(***************************************************************************)
StarKeys == {"price", "ram", "ssd", "rating", "display", "gpu"}

\* a star-rating dict {"price": p, "ram": r, "ssd": s, "rating": t, "display": d, "gpu": g}
Stars(p, r, s, t, d, g) ==
    Dict([k \in StarKeys |->
            Num(CASE k = "price" -> p [] k = "ram" -> r [] k = "ssd" -> s
                  [] k = "rating" -> t [] k = "display" -> d [] k = "gpu" -> g)])

FallbackBudgetUnits == {"juta", "jt", "million"}

\* the use-case cascade: the first cluster with a keyword in the message
Clusters ==
    <<[words |-> {"gaming", "game", "main game"}, use_case |-> "gaming",
       weights |-> Stars(2, 4, 3, 3, 4, 5),
       filters |-> [k \in {"gpu_min", "ram_min"} |-> Num(IF k = "gpu_min" THEN 4 ELSE 16)]],
      [words |-> {"editing", "edit", "video", "render", "3d", "desain"}, use_case |-> "editing",
       weights |-> Stars(2, 5, 4, 3, 4, 5),
       filters |-> [k \in {"gpu_min", "ram_min", "ssd_min"} |->
                       Num(CASE k = "gpu_min" -> 4 [] k = "ram_min" -> 16 [] k = "ssd_min" -> 512)]],
      [words |-> {"programming", "coding", "developer", "programmer", "ngoding"},
       use_case |-> "coding",
       weights |-> Stars(3, 5, 4, 3, 4, 2),
       filters |-> [k \in {"ram_min", "ssd_min"} |-> Num(IF k = "ram_min" THEN 16 ELSE 512)]],
      [words |-> {"office", "kantor", "kerja", "bisnis"}, use_case |-> "office",
       weights |-> Stars(4, 3, 3, 4, 3, 1),
       filters |-> [k \in {"ram_min"} |-> Num(8)]],
      [words |-> {"kuliah", "mahasiswa", "pelajar", "sekolah", "student"}, use_case |-> "kuliah",
       weights |-> Stars(5, 3, 3, 3, 2, 1),
       filters |-> [k \in {"ram_min"} |-> Num(8)]],
      [words |-> {"murah", "budget", "hemat", "terjangkau"}, use_case |-> "",
       weights |-> Stars(5, 3, 2, 3, 2, 1),
       filters |-> <<>>]>>

\* Mutant: a chain of plain "if"s, in which the last matching branch prevails
MatchedCluster_last(message_lower) ==
    IF \E i \in DOMAIN Clusters : ContainsAny(message_lower, Clusters[i].words)
    THEN CHOOSE i \in DOMAIN Clusters :
            /\ ContainsAny(message_lower, Clusters[i].words)
            /\ \A j \in DOMAIN Clusters :
                  ContainsAny(message_lower, Clusters[j].words) => j <= i
    ELSE 0

\* the index of the branch of the if/elif chain that is taken, 0 for none
MatchedCluster(message_lower) ==
    IF \E i \in DOMAIN Clusters : ContainsAny(message_lower, Clusters[i].words)
    THEN SetMin({i \in DOMAIN Clusters : ContainsAny(message_lower, Clusters[i].words)})
    ELSE 0

(***************************************************************************)
(* The utterances of the model, and what the regular expressions and the   *)
(* keyword scans find in each (computed once per utterance).               *)
(***************************************************************************)
Utterances ==
    {"cari laptop murah",
     "laptop murah",
     "Laptop Gaming MURAH",
     "rekomendasi laptop bagus",
     "laptop gaming budget 15 juta",
     "laptop kuliah coding 8 jt",
     "budget 500 ribu",
     "halo"}

\* what the gate and the fallback find in message_lower
FactsIn(message_lower, budget_match) ==
    [vague_budget |-> has_vague_budget(message_lower),
     use_case |-> has_use_case(message_lower),
     vague_request |-> has_vague_request(message_lower),
     budget_match |-> budget_match,
     budget |-> IF budget_match
                THEN int(Group1(message_lower, FallbackBudgetUnits, BoundedUnits)) * 1000000
                ELSE 0,
     cluster |-> MatchedCluster(message_lower)]

FactsOfLower(message_lower) ==
    FactsIn(message_lower, MatchStarts(message_lower, FallbackBudgetUnits, BoundedUnits) # {})

FactsOf(message) == FactsOfLower(lower(message))

TextFacts == [m \in Utterances |-> FactsOf(m)]

(***************************************************************************)
(* ai_assistant.py: check_needs_clarification (continued) and              *)
(* generate_clarification_response.                                        *)
(***************************************************************************)
\* the first "if": the budget question is due
AskBudget(message, mem) ==
    /\ TextFacts[message].vague_budget
    /\ ~Truthy(GetOrNone(mem.user_preferences, "budget"))
    /\ should_ask_clarification(mem, "budget")

\* Mutant: the use-case question does not look at the asked topics
AskUseCase_unasked(message, mem) ==
    /\ TextFacts[message].vague_request
    /\ ~Truthy(GetOrNone(mem.user_preferences, "use_case"))

\* the second "if": the use-case question is due
AskUseCase(message, mem) ==
    /\ TextFacts[message].vague_request
    /\ ~Truthy(GetOrNone(mem.user_preferences, "use_case"))
    /\ should_ask_clarification(mem, "use_case")

\* the dict that is returned, given which of the two questions are due
needs_clarification(budget_due, use_case_due) ==
    [needed |-> budget_due \/ use_case_due,
     questions |-> (IF budget_due THEN <<BudgetQuestion>> ELSE <<>>)
                      \o (IF use_case_due THEN <<UseCaseQuestion>> ELSE <<>>),
     missing_info |-> (IF budget_due THEN <<"budget">> ELSE <<>>)
                         \o (IF use_case_due THEN <<"use_case">> ELSE <<>>)]

check_needs_clarification(message, mem) ==
    needs_clarification(AskBudget(message, mem), AskUseCase(message, mem))

\* "\n".join(f"{i+1}. {q}" ...): the numbered lines, each ended by a newline
\* except the last
RECURSIVE NumberedLines(_, _)
NumberedLines(questions, i) ==
    IF i > Len(questions) THEN ""
    ELSE ToString(i) \o ". " \o questions[i]
            \o (IF i < Len(questions) THEN "\n" ELSE "")
            \o NumberedLines(questions, i + 1)

generate_clarification_response(questions) ==
    IF Len(questions) = 1
    THEN "Untuk memberikan rekomendasi yang tepat, saya perlu tahu: " \o questions[1]
    ELSE "Untuk memberikan rekomendasi yang tepat, saya perlu beberapa informasi:\n"
            \o NumberedLines(questions, 1)

\* f"{n:03d}"
Pad3(n) == (IF n < 10 THEN "00" ELSE IF n < 100 THEN "0" ELSE "") \o ToString(n)

\* f"{n:,.0f}".replace(",", ".")
RECURSIVE Thousands(_)
Thousands(n) ==
    IF n < 1000 THEN ToString(n)
    ELSE Thousands(n \div 1000) \o "." \o Pad3(n % 1000)

\* ai_response[:500]
Truncate(s, n) == IF Len(s) > n THEN SubSeq(s, 1, n) ELSE s

(***************************************************************************)
(* ai_assistant.py: ConversationMemory.add_message, get_context_summary    *)
(* and clear.                                                              *)
(***************************************************************************)
\* "timestamp" is left out of a message: no method reads it
add_message(mem, role, content) ==
    [mem EXCEPT !.messages = Append(@, [role |-> role, content |-> content])]

\* ', '.join(parts)
RECURSIVE Join(_)
Join(parts) ==
    IF parts = <<>> THEN ""
    ELSE IF Len(parts) = 1 THEN parts[1]
    ELSE parts[1] \o ", " \o Join(Tail(parts))

\* q[-n:]
LastN(q, n) == SubSeq(q, (IF Len(q) > n THEN Len(q) - n ELSE 0) + 1, Len(q))

PreferenceParts(prefs) ==
    (IF Truthy(GetOrNone(prefs, "budget"))
     THEN <<"Budget: Rp " \o Thousands(prefs.v["budget"].v[1])>> ELSE <<>>)
    \o (IF Truthy(GetOrNone(prefs, "use_case"))
        THEN <<"Kebutuhan: " \o prefs.v["use_case"].v[1]>> ELSE <<>>)

MessageLine(msg) ==
    "  [" \o (IF msg.role = "user" THEN "User" ELSE "AI") \o "]: "
    \o (IF Len(msg.content) > 100 THEN SubSeq(msg.content, 1, 100) \o "..." ELSE msg.content)
    \o "\n"

get_context_summary(mem) ==
    IF mem.messages = <<>> /\ ~Truthy(mem.user_preferences)
    THEN ""
    ELSE "\nKONTEKS PERCAKAPAN SEBELUMNYA:\n"
         \o (IF Truthy(mem.user_preferences) /\ PreferenceParts(mem.user_preferences) # <<>>
             THEN "- Preferensi user: " \o Join(PreferenceParts(mem.user_preferences)) \o "\n"
             ELSE "")
         \o (IF mem.recommended_laptops # <<>>
             THEN "- Laptop sudah direkomendasikan: "
                  \o Join(LastN(mem.recommended_laptops, 3)) \o "\n"
             ELSE "")
         \o (IF Len(mem.messages) >= 2
             THEN "- Percakapan terakhir:\n"
                  \o MessageLine(mem.messages[Len(mem.messages) - 1])
                  \o MessageLine(mem.messages[Len(mem.messages)])
             ELSE "")

\* Mutant: clear() forgets to empty the asked topics
clear_keeps_asked(mem) ==
    [messages |-> <<>>, user_preferences |-> EmptyDict,
     recommended_laptops |-> <<>>, clarifications_asked |-> mem.clarifications_asked]

clear(mem) ==
    [messages |-> <<>>, user_preferences |-> EmptyDict,
     recommended_laptops |-> <<>>, clarifications_asked |-> <<>>]

FallbackMessage(use_case, filters) ==
    "Baik, saya akan carikan laptop"
        \o (IF use_case # "" THEN " untuk " \o use_case ELSE "")
        \o (IF Truthy(GetOrNone(filters, "price_max"))
            THEN " dengan budget maksimal Rp " \o Thousands(filters.v["price_max"].v[1])
            ELSE "")
        \o "."
        \o (IF Truthy(GetOrNone(filters, "ram_min"))
            THEN " RAM minimal " \o ToString(filters.v["ram_min"].v[1]) \o "GB."
            ELSE "")
        \o (IF Truthy(GetOrNone(filters, "gpu_min"))
            THEN " GPU dedicated minimal " \o ToString(filters.v["gpu_min"].v[1]) \o "GB."
            ELSE "")

\* The locals of parse_simple_fallback, each computed once from the text
\* analysis of the message (facts) and handed on.
FallbackUseCase(c) == IF c = 0 THEN "" ELSE Clusters[c].use_case

FallbackWeights(c) == IF c = 0 THEN Stars(3, 3, 3, 3, 3, 3) ELSE Clusters[c].weights

\* Mutant: the budget is detected but not made a filter
FallbackFilters_without_budget(facts) ==
    IF facts.cluster = 0 THEN EmptyDict ELSE Dict(Clusters[facts.cluster].filters)

FallbackFilters(facts) ==
    DictUpdate(IF facts.budget_match THEN Put(EmptyDict, "price_max", Num(facts.budget))
               ELSE EmptyDict,
               IF facts.cluster = 0 THEN EmptyDict ELSE Dict(Clusters[facts.cluster].filters))

FallbackDetected(facts, use_case) ==
    DictUpdate(IF facts.budget_match THEN Put(EmptyDict, "budget", Num(facts.budget))
               ELSE EmptyDict,
               IF use_case # "" THEN Put(EmptyDict, "use_case", Str(use_case))
               ELSE EmptyDict)

FallbackResponse(ai_response, use_case, filters) ==
    IF ai_response # "" /\ Len(ai_response) > 20
    THEN Truncate(ai_response, 500)
    ELSE FallbackMessage(use_case, filters)

\* [result, memory]: the returned dict and the memory as left behind
FallbackReturn(star_weights, filters, use_case, detected, response_message, mem) ==
    [result |->
        [success |-> TRUE,
         response_message |-> Str(response_message),
         filters |-> filters,
         weights |-> star_weights,
         use_case |-> Str(use_case),
         needs_clarification |-> FALSE,
         clarification_questions |-> EmptyList,
         detected_preferences |-> detected,
         error |-> PyNone],
     memory |-> IF Truthy(detected) THEN update_preferences(mem, detected) ELSE mem]

FallbackWith(facts, use_case, filters, ai_response, mem) ==
    FallbackReturn(FallbackWeights(facts.cluster), filters, use_case,
                   FallbackDetected(facts, use_case),
                   FallbackResponse(ai_response, use_case, filters), mem)

FallbackOn(facts, ai_response, mem) ==
    FallbackWith(facts, FallbackUseCase(facts.cluster), FallbackFilters(facts),
                 ai_response, mem)

\* Mutant: the failure is surfaced instead of being recovered by keywords
parse_simple_fallback_surfacing(message, ai_response, mem) ==
    [result |-> [success |-> FALSE,
                 response_message |-> Str("Maaf, terjadi kesalahan: " \o ai_response),
                 filters |-> EmptyDict,
                 weights |-> EmptyDict,
                 use_case |-> Str(""),
                 needs_clarification |-> FALSE,
                 clarification_questions |-> EmptyList,
                 detected_preferences |-> EmptyDict,
                 error |-> PyNone],
     memory |-> mem]

\* Returns [result, memory]: the returned dict and the memory as left behind.
parse_simple_fallback(message, ai_response, mem) ==
    FallbackOn(IF message \in DOMAIN TextFacts THEN TextFacts[message] ELSE FactsOf(message),
               ai_response, mem)

(***************************************************************************)
(* ai_assistant.py: call_free_llm and the JSON in its reply.               *)
(***************************************************************************)
\* The outcomes of call_free_llm: the three except branches, or a reply text.
ApiFailures ==
    {[success |-> FALSE, error |-> "Request timeout. Silakan coba lagi."],
     [success |-> FALSE, error |-> "Tidak dapat terhubung ke server AI."],
     [success |-> FALSE, error |-> "500 Server Error: Internal Server Error"]}

ReplyUnderstood ==
    "Siap! {\"understood\": true, \"use_case\": \"gaming\", \"response_message\": \"Laptop gaming 15 juta, gas!\", \"filters\": {\"price_max\": 15000000, \"ram_min\": null}, \"weights\": {\"price\": 2, \"gpu\": 5}, \"detected_preferences\": {\"budget\": 15000000, \"use_case\": \"gaming\"}}"
ReplyAsks ==
    "{\"needs_clarification\": true, \"clarification_questions\": [\"Budgetnya berapa?\"]}"
ReplyNotUnderstood == "{\"understood\": false}"
\* not understood, with a message and with fields that only an understood
\* reply should carry
ReplyApology ==
    "{\"understood\": false, \"response_message\": \"Bisa dijelaskan lagi?\", \"filters\": {\"ram_min\": 8}, \"detected_preferences\": {\"budget\": 5000000}}"
\* a clarification request that also carries the fields of an understood reply
ReplyAsksWithAnswer ==
    "{\"needs_clarification\": true, \"understood\": true, \"clarification_questions\": [\"Untuk apa laptopnya?\"], \"filters\": {\"ram_min\": 8}, \"weights\": {\"price\": 5}, \"detected_preferences\": {\"budget\": 5000000}}"
ReplyEmptyObject == "{}"
ReplyNullPreferences == "{\"detected_preferences\": {\"budget\": null, \"use_case\": null}}"
ReplyWrongTypes == "{\"filters\": [], \"weights\": \"tinggi\"}"
ReplyPlainText == "Maaf, saya belum bisa membantu soal itu."
ReplyShortText == "OK"
ReplyBrokenJson == "{\"understood\": true, \"weights\": {\"price\": 5"
ReplyNotJson == "Pilihan: {laptop gaming}"
\* the understood reply followed by more text that holds braces
ReplyTrailingBraces == ReplyUnderstood \o " Catatan: {harga bisa berubah}"

ReplyTexts ==
    {ReplyUnderstood, ReplyAsks, ReplyNotUnderstood, ReplyEmptyObject,
     ReplyNullPreferences, ReplyWrongTypes, ReplyPlainText, ReplyShortText,
     ReplyBrokenJson, ReplyNotJson, ReplyTrailingBraces, ReplyApology,
     ReplyAsksWithAnswer}

ApiResults == ApiFailures \cup {[success |-> TRUE, response |-> r] : r \in ReplyTexts}

\* json.loads on the texts that are JSON objects; any other text raises
\* JSONDecodeError
JsonObjects ==
    [j \in {"{\"understood\": true, \"use_case\": \"gaming\", \"response_message\": \"Laptop gaming 15 juta, gas!\", \"filters\": {\"price_max\": 15000000, \"ram_min\": null}, \"weights\": {\"price\": 2, \"gpu\": 5}, \"detected_preferences\": {\"budget\": 15000000, \"use_case\": \"gaming\"}}",
            ReplyAsks, ReplyNotUnderstood, ReplyEmptyObject, ReplyNullPreferences,
            ReplyWrongTypes, ReplyApology, ReplyAsksWithAnswer} |->
        CASE j = ReplyAsks ->
               [k \in {"needs_clarification", "clarification_questions"} |->
                   IF k = "needs_clarification" THEN Bool(TRUE)
                   ELSE List(<<Str("Budgetnya berapa?")>>)]
          [] j = ReplyNotUnderstood -> [k \in {"understood"} |-> Bool(FALSE)]
          [] j = ReplyApology ->
               [k \in {"understood", "response_message", "filters", "detected_preferences"} |->
                   CASE k = "understood" -> Bool(FALSE)
                     [] k = "response_message" -> Str("Bisa dijelaskan lagi?")
                     [] k = "filters" -> Dict([q \in {"ram_min"} |-> Num(8)])
                     [] k = "detected_preferences" -> Dict([q \in {"budget"} |-> Num(5000000)])]
          [] j = ReplyAsksWithAnswer ->
               [k \in {"needs_clarification", "understood", "clarification_questions",
                       "filters", "weights", "detected_preferences"} |->
                   CASE k = "needs_clarification" -> Bool(TRUE)
                     [] k = "understood" -> Bool(TRUE)
                     [] k = "clarification_questions" ->
                          List(<<Str("Untuk apa laptopnya?")>>)
                     [] k = "filters" -> Dict([q \in {"ram_min"} |-> Num(8)])
                     [] k = "weights" -> Dict([q \in {"price"} |-> Num(5)])
                     [] k = "detected_preferences" ->
                          Dict([q \in {"budget"} |-> Num(5000000)])]
          [] j = ReplyEmptyObject -> <<>>
          [] j = ReplyNullPreferences ->
               [k \in {"detected_preferences"} |->
                   Dict([q \in {"budget", "use_case"} |-> PyNone])]
          [] j = ReplyWrongTypes ->
               [k \in {"filters", "weights"} |->
                   IF k = "filters" THEN EmptyList ELSE Str("tinggi")]
          [] OTHER ->
               [k \in {"understood", "use_case", "response_message", "filters",
                       "weights", "detected_preferences"} |->
                   CASE k = "understood" -> Bool(TRUE)
                     [] k = "use_case" -> Str("gaming")
                     [] k = "response_message" -> Str("Laptop gaming 15 juta, gas!")
                     [] k = "filters" ->
                          Dict([q \in {"price_max", "ram_min"} |->
                                  IF q = "price_max" THEN Num(15000000) ELSE PyNone])
                     [] k = "weights" ->
                          Dict([q \in {"price", "gpu"} |-> Num(IF q = "price" THEN 2 ELSE 5)])
                     [] k = "detected_preferences" ->
                          Dict([q \in {"budget", "use_case"} |->
                                  IF q = "budget" THEN Num(15000000) ELSE Str("gaming")])]]

SetMax(S) == CHOOSE m \in S : \A x \in S : x <= m
Positions(s, c) == {i \in 1..Len(s) : CharAt(s, i) = c}

\* re.search(r'\{[\s\S]*\}', response_text): greedy, so the match runs from the
\* first "{" to the last "}" after it; "" when there is no match
json_match(text) ==
    IF Positions(text, "{") # {}
       /\ \E j \in Positions(text, "}") : j > SetMin(Positions(text, "{"))
    THEN SubSeq(text, SetMin(Positions(text, "{")), SetMax(Positions(text, "}")))
    ELSE ""

\* the match in each reply text of the model (computed once per text)
JsonMatch == [text \in ReplyTexts |-> json_match(text)]

(***************************************************************************)
(* ai_assistant.py: parse_user_message.  Returns [result, memory,          *)
(* api_calls, asked]: the returned dict, the memory as left behind, the    *)
(* number of remote calls made and the topics the local gate asked about.  *)
(***************************************************************************)
EmptyResult ==
    [success |-> FALSE, response_message |-> Str(""), filters |-> EmptyDict,
     weights |-> EmptyDict, needs_clarification |-> FALSE,
     clarification_questions |-> EmptyList, detected_preferences |-> EmptyDict,
     error |-> PyNone]

\* Mutant: the topics of the questions are not marked asked
MarkNone(mem, topics) == mem

RECURSIVE MarkAll(_, _)
MarkAll(mem, topics) ==
    IF topics = <<>> THEN mem
    ELSE MarkAll(mark_clarification_asked(mem, Head(topics)), Tail(topics))

\* the "except Exception" handler, entered with the result as built so far
Failed(res, text) ==
    [res EXCEPT !.error = Str(text),
                   !.response_message =
                       Str("Maaf, terjadi kesalahan dalam memproses permintaan.")]

\* the "needs_clarification" branch of the parsed reply
\* Mutant: the clarification result also takes over the reply's filters,
\* weights and detected preferences
RemoteClarification_with_answer(parsed) ==
    [EmptyResult EXCEPT !.needs_clarification = TRUE,
                        !.clarification_questions =
                            Get(Dict(parsed), "clarification_questions", EmptyList),
                        !.filters = Get(Dict(parsed), "filters", EmptyDict),
                        !.weights = Get(Dict(parsed), "weights", EmptyDict),
                        !.detected_preferences =
                            Get(Dict(parsed), "detected_preferences", EmptyDict)]

RemoteClarification(parsed) ==
    LET questions == Get(Dict(parsed), "clarification_questions", EmptyList)
        asking == [EmptyResult EXCEPT !.needs_clarification = TRUE,
                                      !.clarification_questions = questions]
    IN  \* the default of parsed.get("response_message", ...) is always evaluated
        IF questions.t # "list"
        THEN Failed(asking, "object of this type has no len()")
        ELSE [asking EXCEPT !.response_message =
                Get(Dict(parsed), "response_message",
                    Str(generate_clarification_response(
                            [i \in DOMAIN questions.v |-> questions.v[i].v[1]])))]

\* the "understood" branch: [result, memory]
RemoteUnderstood(parsed, mem) ==
    LET understood ==
            [success |-> TRUE,
             response_message |-> Get(Dict(parsed), "response_message",
                                      Str("Saya sudah menganalisis kebutuhan Anda.")),
             filters |-> Get(Dict(parsed), "filters", EmptyDict),
             weights |-> Get(Dict(parsed), "weights", Stars(3, 3, 3, 3, 3, 3)),
             needs_clarification |-> FALSE,
             clarification_questions |-> EmptyList,
             detected_preferences |-> Get(Dict(parsed), "detected_preferences", EmptyDict),
             error |-> PyNone,
             use_case |-> Get(Dict(parsed), "use_case", Str(""))]
        prefs == understood.detected_preferences
    IN  IF ~Truthy(prefs) THEN [result |-> understood, memory |-> mem]
        ELSE IF prefs.t = "dict"
        THEN [result |-> understood, memory |-> update_preferences(mem, prefs)]
        ELSE [result |-> Failed(understood, "cannot convert dictionary update sequence"),
              memory |-> mem]

\* Mutant: the filters of the reply are copied before understood is tested
RemoteNotUnderstood_with_filters(parsed) ==
    [EmptyResult EXCEPT
        !.filters = Get(Dict(parsed), "filters", EmptyDict),
        !.response_message =
            Get(Dict(parsed), "response_message",
                Str("Maaf, saya kurang memahami kebutuhan Anda. Bisa dijelaskan lebih detail?"))]

RemoteNotUnderstood(parsed) ==
    [EmptyResult EXCEPT !.response_message =
        Get(Dict(parsed), "response_message",
            Str("Maaf, saya kurang memahami kebutuhan Anda. Bisa dijelaskan lebih detail?"))]

\* Mutant: the remote call is made before the gate's result is returned
GateReturn_after_call(clarification, mem) ==
    [result |->
        [EmptyResult EXCEPT
            !.needs_clarification = TRUE,
            !.clarification_questions =
                List([i \in DOMAIN clarification.questions |->
                        Str(clarification.questions[i])]),
            !.response_message =
                Str(generate_clarification_response(clarification.questions))],
     memory |-> MarkAll(mem, clarification.missing_info),
     api_calls |-> 1,
     asked |-> clarification.missing_info]

\* the turn ends at the local gate: [result, memory, api_calls, asked]
GateReturn(clarification, mem) ==
    [result |->
        [EmptyResult EXCEPT
            !.needs_clarification = TRUE,
            !.clarification_questions =
                List([i \in DOMAIN clarification.questions |->
                        Str(clarification.questions[i])]),
            !.response_message =
                Str(generate_clarification_response(clarification.questions))],
     memory |-> MarkAll(mem, clarification.missing_info),
     api_calls |-> 0,
     asked |-> clarification.missing_info]

\* the turn ends after the one remote call, with rm = [result, memory]
Returned(rm) ==
    [result |-> rm.result, memory |-> rm.memory, api_calls |-> 1, asked |-> <<>>]

RemoteReturned(res, mem) ==
    [result |-> res, memory |-> mem, api_calls |-> 1, asked |-> <<>>]

\* the reply held a JSON object
Parsed(parsed, mem) ==
    IF Truthy(Get(Dict(parsed), "needs_clarification", Bool(FALSE)))
    THEN RemoteReturned(RemoteClarification(parsed), mem)
    ELSE IF Truthy(Get(Dict(parsed), "understood", Bool(TRUE)))
    THEN Returned(RemoteUnderstood(parsed, mem))
    ELSE RemoteReturned(RemoteNotUnderstood(parsed), mem)

\* the remote call returned response_text, in which the regex found json_str
Replied(message, mem, response_text, json_str) ==
    IF json_str = "" \/ json_str \notin DOMAIN JsonObjects
    THEN \* no match, or json.loads raises JSONDecodeError
         Returned(parse_simple_fallback(message, response_text, mem))
    ELSE Parsed(JsonObjects[json_str], mem)

\* after the local check, whose result is clarification
Checked(clarification, message, mem, api) ==
    IF clarification.needed THEN GateReturn(clarification, mem)
    ELSE IF ~api.success
    THEN Returned(parse_simple_fallback(message, "", mem))
    ELSE Replied(message, mem, api.response, JsonMatch[api.response])

\* [result, memory, api_calls, asked]: asked lists the topics whose question
\* the local gate emitted in this call
parse_user_message(message, mem, api) ==
    Checked(check_needs_clarification(message, mem), message, mem, api)

(***************************************************************************)
(* SpecChat: one session, a sequence of parse_user_message calls on the    *)
(* session's memory, with the memory reset of the "Hapus Riwayat Chat"     *)
(* button.                                                                 *)
(***************************************************************************)
ChatInit ==
    /\ memory = NewMemory /\ user_message = "" /\ api_result = None /\ result = None
    /\ api_calls = 0 /\ asked_log = <<>> /\ memory_calls = <<>>
    /\ NormIdle /\ SawIdle /\ WeightsIdle

ParseUserMessage ==
    \E m \in Utterances, r \in ApiResults :
        \E out \in {parse_user_message(m, memory, r)} :
            /\ user_message' = m
            /\ api_result' = IF out.api_calls = 0 THEN None ELSE Some(r)
            /\ result' = Some(out.result)
            /\ memory' = out.memory
            /\ api_calls' = out.api_calls
            /\ asked_log' = asked_log \o out.asked
            /\ UNCHANGED <<memory_calls, normVars, sawVars, weightVars>>

\* st.session_state['conversation_memory'] = ConversationMemory()
ClearChat ==
    /\ result # None
    /\ memory' = NewMemory
    /\ asked_log' = <<>>
    /\ UNCHANGED <<user_message, api_result, result, api_calls, memory_calls,
                   normVars, sawVars, weightVars>>

ChatNext == ParseUserMessage \/ ClearChat
SpecChat == ChatInit /\ [][ChatNext]_vars

(***************************************************************************)
(* SpecRepeat: calculate_saw_scores and rank_alternatives called on a      *)
(* frame and a weight mapping, and then called again with the same         *)
(* arguments.                                                              *)
(***************************************************************************)
RepeatFrames == UNION {[1..n -> [DfColumns -> 0..MaxRepeatVal]] : n \in 1..MaxRows}

\* weight mappings that sum to 1, as the weight conversion returns them
UnitWeightMaps == {w \in WeightMaps : weights_total(w) = One}

RepeatInit ==
    /\ df \in RepeatFrames /\ weights \in UnitWeightMaps
    /\ tie_break \in Perms(Len(df))
    /\ scores = <<>> /\ decision_matrix = <<>> /\ normalized_matrix = <<>>
    /\ ranked = <<>> /\ top_n = None /\ spc = "input"
    /\ FilterIdle /\ NormIdle /\ ChatIdle /\ WeightsIdle

Scored(frame, w, cols, dm) ==
    /\ decision_matrix' = dm
    /\ normalized_matrix' = normalize_matrix(dm, cols)
    /\ scores' = score_rows(normalize_matrix(dm, cols), w, cols)

CalculateSawScoresAgain ==
    /\ spc \in {"input", "ranked"}
    /\ Scored(df, weights, criteria_columns(weights),
              create_decision_matrix(df, criteria_columns(weights)))
    /\ spc' = IF spc = "input" THEN "scored" ELSE "rescored"
    /\ UNCHANGED <<df, weights, ranked, top_n, tie_break, filterVars, normVars, chatVars, weightVars>>

RankAlternativesAgain ==
    /\ spc \in {"scored", "rescored"}
    /\ ranked' = head(with_rank(scores, sort_values_as(scores, tie_break)), top_n)
    /\ df' = frame_after_rank(df, scores)
    /\ spc' = IF spc = "scored" THEN "ranked" ELSE "reranked"
    /\ UNCHANGED <<weights, scores, decision_matrix, normalized_matrix, top_n, tie_break, filterVars,
                   normVars, chatVars, weightVars>>

RepeatNext == CalculateSawScoresAgain \/ RankAlternativesAgain
SpecRepeat == RepeatInit /\ [][RepeatNext]_vars

(***************************************************************************)
(* SpecFilter: one request for recommendations, on the chat path           *)
(* (app.py, after a successful parse) or on the manual path (the analyse   *)
(* button): category filter, range filters, and then either the "no        *)
(* matches" text or calculate_saw_scores and rank_alternatives.  The rows  *)
(* carry the two criteria of DfColumns; the other four ranges are applied  *)
(* by the same expression.                                                 *)
(***************************************************************************)
Laptop(cat, price, ram) == [Category |-> cat, price_numeric |-> price, ram_numeric |-> ram]

CatalogueRows ==
    {Laptop("Gaming", 2, 2), Laptop("Gaming", 1, 1), Laptop("Office", 1, 2),
     Laptop("Office", 0, 1)}

Catalogues == UNION {[1..n -> CatalogueRows] : n \in 1..MaxCatalogue}
Categories == {"Semua Laptop", "Gaming", "Office"}

FilterKeys == {"price", "ram"}
Ranges == (0..MaxFilterVal) \X (0..MaxFilterVal)
RangeFilters == [FilterKeys -> Ranges]

\* data_processor.filter_by_category
filter_by_category(frame, category) ==
    IF lower(category) \in {"semua", "all", "semua laptop"}
    THEN frame
    ELSE SelectSeq(frame, LAMBDA r : r.Category = category)

\* filtered_df[(filtered_df[col] >= filters[key][0]) & (filtered_df[col] <= filters[key][1])]
in_range(frame, key, range) ==
    SelectSeq(frame, LAMBDA r : r[key \o "_numeric"] >= range[1] /\ r[key \o "_numeric"] <= range[2])

\* if filters: ... one selection per criterion
apply_range_filters(frame, f) ==
    IF DOMAIN f = {} THEN frame
    ELSE in_range(in_range(frame, "price", f["price"]), "ram", f["ram"])

\* Mutant: the emptiness test looks at the frame before the filters
no_alternative_before_filters(frame, filtered) == Len(frame) = 0

\* if len(filtered_df) == 0:
no_alternative(frame, filtered) == Len(filtered) = 0

\* the texts of the two paths (the chat text follows an emoji)
NoMatchesChat ==
    "Maaf, tidak ada laptop yang sesuai dengan kriteria Anda. Coba perluas budget atau kurangi spesifikasi yang diminta."
NoMatchesManual == "Tidak ada laptop yang sesuai filter. Coba perluas range filter Anda."

\* the weights of the request: every criterion of the frame weighted alike
EvenWeights == [c \in DfColumns |-> Rat(1, 2)]

FilterInit ==
    /\ catalogue \in Catalogues /\ selected_cat \in Categories
    /\ app_filters = <<>> /\ notice = "" /\ scoring_calls = 0 /\ fpc = "input"
    /\ ai_filters = <<>> /\ data_stats = <<>> /\ cpc = "idle" /\ ExplainIdle /\ StatsIdle
    /\ df = <<>> /\ weights = <<>> /\ scores = <<>> /\ decision_matrix = <<>>
    /\ normalized_matrix = <<>> /\ ranked = <<>> /\ top_n = None /\ spc = "idle"
    /\ tie_break = <<>>
    /\ NormIdle /\ ChatIdle /\ WeightsIdle

\* the end of both handlers: the text and no scoring, or scoring and ranking
Recommend(filtered, w, n, text) ==
    IF no_alternative(catalogue, filtered)
    THEN /\ notice' = text
         /\ UNCHANGED <<df, weights, scores, decision_matrix, normalized_matrix, ranked,
                        top_n, scoring_calls>>
    ELSE /\ notice' = ""
         /\ scoring_calls' = scoring_calls + 1
         /\ df' = filtered /\ weights' = w /\ top_n' = Some(n)
         /\ Scored(filtered, w, criteria_columns(w),
                   create_decision_matrix(filtered, criteria_columns(w)))
         /\ \E p \in sort_values(score_rows(normalize_matrix(
                        create_decision_matrix(filtered, criteria_columns(w)),
                        criteria_columns(w)), w, criteria_columns(w))) :
                ranked' = head(with_rank(score_rows(normalize_matrix(
                        create_decision_matrix(filtered, criteria_columns(w)),
                        criteria_columns(w)), w, criteria_columns(w)), p), Some(n))

ChatRecommend ==
    /\ fpc = "input"
    /\ \E f \in RangeFilters :
          /\ app_filters' = f
          /\ \E filtered \in {apply_range_filters(filter_by_category(catalogue, selected_cat), f)} :
                Recommend(filtered, EvenWeights,
                          IF 5 < Len(filtered) THEN 5 ELSE Len(filtered), NoMatchesChat)
    /\ fpc' = "chat"
    /\ UNCHANGED <<catalogue, selected_cat, ai_filters, data_stats, cpc, explainVars, statsVars, spc, tie_break,
                   normVars, chatVars, weightVars>>

ManualRecommend ==
    /\ fpc = "input"
    /\ \E f \in RangeFilters \cup {<<>>}, n \in {5, 30} :
          /\ app_filters' = f
          /\ \E filtered \in {apply_range_filters(filter_by_category(catalogue, selected_cat), f)} :
                Recommend(filtered, EvenWeights, n, NoMatchesManual)
    /\ fpc' = "manual"
    /\ UNCHANGED <<catalogue, selected_cat, ai_filters, data_stats, cpc, explainVars, statsVars, spc, tie_break,
                   normVars, chatVars, weightVars>>

FilterNext == ChatRecommend \/ ManualRecommend
SpecFilter == FilterInit /\ [][FilterNext]_vars

(***************************************************************************)
(* SpecConvert: convert_ai_filters_to_app_filters applied to the filters   *)
(* of a parse result and the statistics of the data set.  The minima and   *)
(* maxima of the statistics and the bounds of the ranges are exact         *)
(* fractions <<n, d>>; the products and quotients by 192 are computed      *)
(* exactly, where the code computes them in binary floating point.  The    *)
(* extracted prices are in rupiah, the prices of the data set in rupees.   *)
(***************************************************************************)
FilterCriteria == {"price", "ram", "ssd", "rating", "display", "gpu"}
AiFilterKeys == {c \o "_min" : c \in FilterCriteria} \cup {c \o "_max" : c \in FilterCriteria}

\* a bound an extraction may name for each key, besides 0 and null
SampleBound ==
    [price_min |-> 5000000, price_max |-> 15000000, ram_min |-> 8, ram_max |-> 16,
     ssd_min |-> 512, ssd_max |-> 512, rating_min |-> 70, rating_max |-> 60,
     display_min |-> 14, display_max |-> 15, gpu_min |-> 4, gpu_max |-> 4]

AiFilterValue(key, choice) ==
    CASE choice = 0 -> PyNone
      [] choice = 1 -> Num(0)
      [] OTHER -> Num(SampleBound[key])

\* the filters of a result: at most MaxSupplied keys, each null, 0 or a bound
AiFilterDicts ==
    UNION {{Dict([k \in ks |-> AiFilterValue(k, ch[k])]) : ch \in [ks -> 0..2]} :
             ks \in {x \in SUBSET AiFilterKeys : Cardinality(x) <= MaxSupplied}}

\* get_data_statistics(df) of two data sets (prices in rupees)
DataStatistics ==
    {[price |-> [min |-> Rat(20000, 1), max |-> Rat(150000, 1)],
      ram |-> [options |-> <<4, 8, 16>>], ssd |-> [options |-> <<256, 512, 1024>>],
      display |-> [min |-> Rat(13, 1), max |-> Rat(17, 1)], gpu |-> [options |-> <<0, 4, 8>>],
      rating |-> [min |-> Rat(55, 1), max |-> Rat(85, 1)]],
     [price |-> [min |-> Rat(60000, 1), max |-> Rat(90000, 1)],
      ram |-> [options |-> <<8, 16>>], ssd |-> [options |-> <<512>>],
      display |-> [min |-> Rat(15, 1), max |-> Rat(16, 1)], gpu |-> [options |-> <<4, 6>>],
      rating |-> [min |-> Rat(63, 1), max |-> Rat(78, 1)]]}

\* x or default, on numbers
OrDefault(x, default) == IF Truthy(x) THEN x.v[1] ELSE default

\* int(x) of a non-negative number: the fraction is cut off
Trunc(q) == q[1] \div q[2]

IdrPerInr == 192

convert_ai_filters_to_app_filters(ai, stats) ==
    LET price_min_idr == Trunc(RatMul(stats.price.min, Rat(IdrPerInr, 1)))
        price_max_idr == Trunc(RatMul(stats.price.max, Rat(IdrPerInr, 1)))
    IN  [c \in FilterCriteria |->
            CASE c = "price" ->
                   <<Rat(OrDefault(Get(ai, "price_min", Num(price_min_idr)), price_min_idr),
                         IdrPerInr),
                     Rat(OrDefault(Get(ai, "price_max", Num(price_max_idr)), price_max_idr),
                         IdrPerInr)>>
              [] c = "ram" ->
                   <<Rat(OrDefault(GetOrNone(ai, "ram_min"), SeqMin(stats.ram.options)), 1),
                     Rat(OrDefault(GetOrNone(ai, "ram_max"), SeqMax(stats.ram.options)), 1)>>
              [] c = "ssd" ->
                   <<Rat(OrDefault(GetOrNone(ai, "ssd_min"), SeqMin(stats.ssd.options)), 1),
                     Rat(SeqMax(stats.ssd.options), 1)>>
              [] c = "rating" ->
                   <<Rat(OrDefault(GetOrNone(ai, "rating_min"), Trunc(stats.rating.min)), 1),
                     Rat(Trunc(stats.rating.max), 1)>>
              [] c = "display" ->
                   <<IF Truthy(GetOrNone(ai, "display_min"))
                     THEN Rat(GetOrNone(ai, "display_min").v[1], 1) ELSE stats.display.min,
                     IF Truthy(GetOrNone(ai, "display_max"))
                     THEN Rat(GetOrNone(ai, "display_max").v[1], 1) ELSE stats.display.max>>
              [] c = "gpu" ->
                   <<Rat(OrDefault(GetOrNone(ai, "gpu_min"), SeqMin(stats.gpu.options)), 1),
                     Rat(SeqMax(stats.gpu.options), 1)>>]

ConvertInit ==
    /\ ai_filters \in AiFilterDicts /\ data_stats \in DataStatistics
    /\ app_filters = <<>> /\ cpc = "input" /\ ExplainIdle /\ StatsIdle
    /\ catalogue = <<>> /\ selected_cat = "" /\ notice = "" /\ scoring_calls = 0
    /\ fpc = "idle"
    /\ df = <<>> /\ weights = <<>> /\ scores = <<>> /\ decision_matrix = <<>>
    /\ normalized_matrix = <<>> /\ ranked = <<>> /\ top_n = None /\ spc = "idle"
    /\ tie_break = <<>>
    /\ NormIdle /\ ChatIdle /\ WeightsIdle

ConvertAiFilters ==
    /\ cpc = "input"
    /\ app_filters' = convert_ai_filters_to_app_filters(ai_filters, data_stats)
    /\ cpc' = "converted"
    /\ UNCHANGED <<ai_filters, data_stats, catalogue, selected_cat, notice, scoring_calls, fpc,
                   explainVars, statsVars,
                   df, weights, scores, decision_matrix, normalized_matrix, ranked, top_n, spc,
                   tie_break, normVars, chatVars, weightVars>>

ConvertNext == ConvertAiFilters
SpecConvert == ConvertInit /\ [][ConvertNext]_vars

(***************************************************************************)
(* SpecStats: a loaded data set is preprocessed, its statistics are taken, *)
(* an empty set of extracted filters is converted into ranges and the six  *)
(* range filters of the chat request are applied to the data set.  The     *)
(* rows hold what the extraction functions and pd.to_numeric returned:     *)
(* exact fractions, and NaN for a rating that is missing.  Every row has a *)
(* price and at least one row has a rating.                                *)
(***************************************************************************)
MaxDataRows == 2

NaN == <<0, 0>>
SentinelTenth == Rat(1, 10)

StatColumns ==
    {"price_numeric", "ram_numeric", "ssd_numeric", "display_numeric", "gpu_numeric",
     "rating_numeric"}

Extracted(price, ram, ssd, display, gpu, rating) ==
    [price_numeric |-> price, ram_numeric |-> Rat(ram, 1), ssd_numeric |-> Rat(ssd, 1),
     display_numeric |-> display, gpu_numeric |-> Rat(gpu, 1), rating_numeric |-> rating]

\* rows of a data set: two with every field, one without an SSD size and
\* without a rating, one of which only the price was readable, and one with
\* a price and a rating that are not whole numbers
LoadedRows ==
    {Extracted(Rat(50399, 1), 8, 512, Rat(156, 10), 0, Rat(70, 1)),
     Extracted(Rat(80000, 1), 16, 1024, Rat(156, 10), 6, Rat(85, 1)),
     Extracted(Rat(23990, 1), 4, 0, Rat(14, 1), 0, NaN),
     Extracted(Rat(35990, 1), 0, 0, Zero, 0, Rat(62, 1)),
     Extracted(Rat(6199999, 100), 8, 256, Rat(133, 10), 2, Rat(143, 2))}

LoadedDatasets ==
    {d \in UNION {[1..n -> LoadedRows] : n \in 1..MaxDataRows} :
        \E i \in DOMAIN d : d[i].rating_numeric # NaN}

\* the k-th smallest of a sequence of numbers
Kth(s, k) ==
    s[CHOOSE i \in DOMAIN s :
        Cardinality({j \in DOMAIN s : RatLt(s[j], s[i]) \/ (s[j] = s[i] /\ j < i)}) = k - 1]

\* Series.median(): NaN is skipped
median(s) ==
    LET present == SelectSeq(s, LAMBDA x : x # NaN)
        n == Len(present)
    IN  IF n % 2 = 1 THEN Kth(present, (n + 1) \div 2)
        ELSE RatDiv(RatAdd(Kth(present, n \div 2), Kth(present, n \div 2 + 1)), Rat(2, 1))

\* data_processor.py: preprocess_data, from the fill of the missing ratings on
preprocess_data(rows) ==
    LET median_rating == median([i \in DOMAIN rows |-> rows[i].rating_numeric])
        Replaced(x) == IF x = Zero THEN SentinelTenth ELSE x
    IN  [i \in DOMAIN rows |->
            [rows[i] EXCEPT
                !.rating_numeric = IF @ = NaN THEN median_rating ELSE @,
                !.ram_numeric = Replaced(@),
                !.ssd_numeric = Replaced(@),
                !.display_numeric = Replaced(@)]]

ColumnValues(rows, col) == {rows[i][col] : i \in DOMAIN rows}
ColumnMin(rows, col) == CHOOSE m \in ColumnValues(rows, col) : \A x \in ColumnValues(rows, col) : RatLeq(m, x)
ColumnMax(rows, col) == CHOOSE m \in ColumnValues(rows, col) : \A x \in ColumnValues(rows, col) : RatLeq(x, m)

\* sorted([int(x) for x in S])
SortedInts(S) ==
    LET ordered == CHOOSE f \in [1..Cardinality(S) -> S] :
                      /\ \A i, j \in DOMAIN f : i < j => RatLt(f[i], f[j])
    IN  [i \in DOMAIN ordered |-> Trunc(ordered[i])]

\* app.py: get_data_statistics (without the average rating, which no range uses)
get_data_statistics(rows) ==
    [price |-> [min |-> ColumnMin(rows, "price_numeric"),
                max |-> ColumnMax(rows, "price_numeric")],
     ram |-> [options |->
                SortedInts({x \in ColumnValues(rows, "ram_numeric") : RatLt(Zero, x)})],
     ssd |-> [options |->
                SortedInts({x \in ColumnValues(rows, "ssd_numeric") : RatLt(Zero, x)})],
     display |-> [min |-> ColumnMin(rows, "display_numeric"),
                  max |-> ColumnMax(rows, "display_numeric")],
     gpu |-> [options |-> SortedInts(ColumnValues(rows, "gpu_numeric"))],
     rating |-> [min |-> ColumnMin(rows, "rating_numeric"),
                 max |-> ColumnMax(rows, "rating_numeric")]]

\* app.py, chat request: the six inclusive range filters, applied when the
\* ranges are not empty
range_filtered(rows, ranges) ==
    IF ranges = <<>> THEN rows
    ELSE SelectSeq(rows, LAMBDA row :
            \A c \in FilterCriteria :
                /\ RatLeq(ranges[c][1], row[c \o "_numeric"])
                /\ RatLeq(row[c \o "_numeric"], ranges[c][2]))

StatsInit ==
    /\ dataset \in LoadedDatasets /\ filtered_df = None
    /\ ai_filters = EmptyDict /\ data_stats = <<>> /\ app_filters = <<>> /\ cpc = "loaded"
    /\ ExplainIdle
    /\ catalogue = <<>> /\ selected_cat = "" /\ notice = "" /\ scoring_calls = 0
    /\ fpc = "idle"
    /\ df = <<>> /\ weights = <<>> /\ scores = <<>> /\ decision_matrix = <<>>
    /\ normalized_matrix = <<>> /\ ranked = <<>> /\ top_n = None /\ spc = "idle"
    /\ tie_break = <<>>
    /\ NormIdle /\ ChatIdle /\ WeightsIdle

PreprocessData ==
    /\ cpc = "loaded"
    /\ dataset' = preprocess_data(dataset)
    /\ cpc' = "preprocessed"
    /\ UNCHANGED <<filtered_df, ai_filters, data_stats, app_filters, catalogue, selected_cat,
                   notice, scoring_calls, fpc, explainVars,
                   df, weights, scores, decision_matrix, normalized_matrix, ranked, top_n, spc,
                   tie_break, normVars, chatVars, weightVars>>

GetDataStatistics ==
    /\ cpc = "preprocessed"
    /\ data_stats' = get_data_statistics(dataset)
    /\ cpc' = "input"
    /\ UNCHANGED <<dataset, filtered_df, ai_filters, app_filters, catalogue, selected_cat,
                   notice, scoring_calls, fpc, explainVars,
                   df, weights, scores, decision_matrix, normalized_matrix, ranked, top_n, spc,
                   tie_break, normVars, chatVars, weightVars>>

ApplyRangeFilters ==
    /\ cpc = "converted" /\ dataset # <<>>
    /\ filtered_df' = Some(range_filtered(dataset, app_filters))
    /\ cpc' = "filtered"
    /\ UNCHANGED <<dataset, ai_filters, data_stats, app_filters, catalogue, selected_cat,
                   notice, scoring_calls, fpc, explainVars,
                   df, weights, scores, decision_matrix, normalized_matrix, ranked, top_n, spc,
                   tie_break, normVars, chatVars, weightVars>>

StatsNext == PreprocessData \/ GetDataStatistics \/ ConvertAiFilters \/ ApplyRangeFilters
SpecStats == StatsInit /\ [][StatsNext]_vars

(***************************************************************************)
(* SpecExplain: generate_explanation.  The explanation is the dict of the  *)
(* three buckets the function fills, each statement held as its kind and   *)
(* the values its text names; format_explanation, which joins the texts,   *)
(* is not part of the model.  A null budget or use case makes the function *)
(* raise before any bucket is filled.  The ratio of price to budget is     *)
(* compared exactly: for whole prices below 2^53 the float quotient is on  *)
(* the same side of 0.8 and 1.0 as the exact one.                          *)
(***************************************************************************)
Candidate(model, price, ram, ssd, gpu, rating) ==
    [Model |-> model, price_numeric |-> price, ram_numeric |-> ram, ssd_numeric |-> ssd,
     gpu_numeric |-> gpu, rating_numeric |-> rating, Rating |-> rating]

\* rows of a ranked frame (prices in rupees)
CandidateRows ==
    {Candidate("Lenovo Legion 5 Ryzen 7 RTX 3060 Gaming", 78000, 16, 512, 6, 82),
     Candidate("ASUS TUF Gaming A15", 62000, 8, 512, 4, 75),
     Candidate("Acer Aspire 5", 41000, 8, 256, 0, 63),
     Candidate("HP 15s", 41000, 4, 128, 2, 55)}

CandidateLists == UNION {[1..n -> CandidateRows] : n \in 1..MaxCandidates}

\* the preference facts of a session: a key may be missing, null or set
PreferenceFacts ==
    {Dict([k \in ks |-> IF k = "budget" THEN b ELSE u]) :
        ks \in SUBSET {"budget", "use_case"},
        b \in {PyNone, Num(0), Num(15000000), Num(9000000)},
        u \in {PyNone, Str("Gaming"), Str("video editing"), Str("render 3D"), Str("kantor")}}

Statement(kind, about, value) == [kind |-> kind, about |-> about, value |-> value]

price_analysis(price_idr, budget) ==
    IF budget > 0
    THEN IF 10 * price_idr <= 8 * budget
         THEN [why |-> <<Statement("hemat", "price", price_idr)>>, trade |-> <<>>]
         ELSE IF price_idr <= budget
         THEN [why |-> <<Statement("sesuai budget", "price", price_idr)>>, trade |-> <<>>]
         ELSE [why |-> <<>>, trade |-> <<Statement("melebihi budget", "price", price_idr)>>]
    ELSE [why |-> <<>>, trade |-> <<>>]

ram_analysis(ram, use_case) ==
    IF ContainsAny(use_case, {"gaming", "editing", "coding"})
    THEN IF ram >= 16 THEN [why |-> <<Statement("optimal", "ram", ram)>>, trade |-> <<>>]
         ELSE IF ram >= 8 THEN [why |-> <<>>, trade |-> <<Statement("cukup", "ram", ram)>>]
         ELSE [why |-> <<>>, trade |-> <<>>]
    ELSE IF ram >= 8 THEN [why |-> <<Statement("sehari-hari", "ram", ram)>>, trade |-> <<>>]
         ELSE [why |-> <<>>, trade |-> <<>>]

\* the use cases the GPU analysis treats as depending on the GPU
GpuSensitive(use_case) == ContainsAny(use_case, {"gaming", "editing", "render", "desain"})

gpu_analysis(gpu, use_case) ==
    IF GpuSensitive(use_case)
    THEN IF gpu >= 6 THEN [why |-> <<Statement("sangat baik", "gpu", gpu)>>, trade |-> <<>>]
         ELSE IF gpu >= 4 THEN [why |-> <<Statement("cukup baik", "gpu", gpu)>>, trade |-> <<>>]
         ELSE IF gpu > 0 THEN [why |-> <<>>, trade |-> <<Statement("minimal", "gpu", gpu)>>]
         ELSE [why |-> <<>>, trade |-> <<Statement("integrated", "gpu", gpu)>>]
    ELSE IF gpu > 0 THEN [why |-> <<Statement("bonus", "gpu", gpu)>>, trade |-> <<>>]
         ELSE [why |-> <<>>, trade |-> <<>>]

ssd_analysis(ssd) ==
    IF ssd >= 512 THEN [why |-> <<Statement("lega", "ssd", ssd)>>, trade |-> <<>>]
    ELSE IF ssd >= 256 THEN [why |-> <<>>, trade |-> <<Statement("cukup", "ssd", ssd)>>]
    ELSE [why |-> <<>>, trade |-> <<>>]

rating_analysis(rating) ==
    IF rating >= 80 THEN [why |-> <<Statement("sangat direkomendasikan", "rating", rating)>>,
                          trade |-> <<>>]
    ELSE IF rating >= 60 THEN [why |-> <<Statement("cukup baik", "rating", rating)>>,
                               trade |-> <<>>]
    ELSE [why |-> <<>>, trade |-> <<>>]

\* min(rows, key=...) and max(rows, key=...): the first row of the extreme key
FirstMin(rows, key) ==
    rows[CHOOSE i \in DOMAIN rows :
            /\ \A j \in DOMAIN rows : rows[i][key] <= rows[j][key]
            /\ \A j \in 1..(i - 1) : rows[j][key] # rows[i][key]]

FirstMax(rows, key) ==
    rows[CHOOSE i \in DOMAIN rows :
            /\ \A j \in DOMAIN rows : rows[i][key] >= rows[j][key]
            /\ \A j \in 1..(i - 1) : rows[j][key] # rows[i][key]]

\* Mutant: the cheaper alternative is the first cheaper row, not the cheapest
cheaper_alternative_first(chosen, candidates) ==
    LET cheaper == SelectSeq(candidates, LAMBDA l : l.price_numeric < chosen.price_numeric)
    IN  IF cheaper # <<>>
        THEN <<Statement("lebih hemat", Truncate(cheaper[1].Model, 30),
                         cheaper[1].price_numeric * IdrPerInr)>>
        ELSE <<>>

cheaper_alternative(chosen, candidates) ==
    LET cheaper == SelectSeq(candidates, LAMBDA l : l.price_numeric < chosen.price_numeric)
    IN  IF cheaper # <<>>
        THEN <<Statement("lebih hemat", Truncate(FirstMin(cheaper, "price_numeric").Model, 30),
                         FirstMin(cheaper, "price_numeric").price_numeric * IdrPerInr)>>
        ELSE <<>>

better_gpu_alternative(chosen, candidates, use_case) ==
    LET better_gpu == SelectSeq(candidates, LAMBDA l : l.gpu_numeric > chosen.gpu_numeric)
    IN  IF better_gpu # <<>> /\ ContainsAny(use_case, {"gaming", "editing"})
        THEN <<Statement("GPU lebih kuat", Truncate(FirstMax(better_gpu, "gpu_numeric").Model, 30),
                         FirstMax(better_gpu, "gpu_numeric").gpu_numeric)>>
        ELSE <<>>

find_alternatives(chosen, candidates, use_case, r) ==
    IF Len(candidates) > 1 /\ r = 1
    THEN cheaper_alternative(chosen, candidates)
         \o better_gpu_alternative(chosen, candidates, use_case)
    ELSE <<>>

Buckets(price, ram, gpu, ssd, rating, alternatives) ==
    [why_recommended |-> price.why \o ram.why \o gpu.why \o ssd.why \o rating.why,
     trade_offs |-> price.trade \o ram.trade \o gpu.trade \o ssd.trade \o rating.trade,
     alternatives |-> alternatives]

Explained(chosen, use_case, budget, candidates, r) ==
    Buckets(price_analysis(chosen.price_numeric * IdrPerInr, budget),
            ram_analysis(chosen.ram_numeric, use_case),
            gpu_analysis(chosen.gpu_numeric, use_case),
            ssd_analysis(chosen.ssd_numeric),
            rating_analysis(IF chosen.rating_numeric # 0 THEN chosen.rating_numeric
                            ELSE chosen.Rating),
            find_alternatives(chosen, candidates, use_case, r))

\* use_case = user_prefs.get('use_case', '').lower() raises on None, and
\* budget > 0 raises on None
generate_explanation(chosen, prefs, candidates, r) ==
    IF Get(prefs, "use_case", Str("")).t # "str" THEN [raised |-> "AttributeError"]
    ELSE IF Get(prefs, "budget", Num(0)).t # "num" THEN [raised |-> "TypeError"]
    ELSE Explained(chosen, lower(Get(prefs, "use_case", Str("")).v[1]),
                   Get(prefs, "budget", Num(0)).v[1], candidates, r)

ExplainInit ==
    /\ all_candidates \in CandidateLists
    /\ laptop \in {all_candidates[i] : i \in DOMAIN all_candidates}
    /\ user_prefs \in PreferenceFacts /\ rank \in {1, 2}
    /\ explanation = None /\ StatsIdle
    /\ catalogue = <<>> /\ selected_cat = "" /\ app_filters = <<>> /\ notice = ""
    /\ scoring_calls = 0 /\ fpc = "idle"
    /\ ai_filters = <<>> /\ data_stats = <<>> /\ cpc = "idle"
    /\ df = <<>> /\ weights = <<>> /\ scores = <<>> /\ decision_matrix = <<>>
    /\ normalized_matrix = <<>> /\ ranked = <<>> /\ top_n = None /\ spc = "idle"
    /\ tie_break = <<>>
    /\ NormIdle /\ ChatIdle /\ WeightsIdle

GenerateExplanation ==
    /\ explanation = None
    /\ explanation' = generate_explanation(laptop, user_prefs, all_candidates, rank)
    /\ UNCHANGED <<laptop, user_prefs, all_candidates, rank, catalogue, selected_cat,
                   app_filters, notice, scoring_calls, fpc, ai_filters, data_stats, cpc,
                   statsVars, df, weights, scores, decision_matrix, normalized_matrix, ranked, top_n, spc,
                   tie_break, normVars, chatVars, weightVars>>

ExplainNext == GenerateExplanation
SpecExplain == ExplainInit /\ [][ExplainNext]_vars

(***************************************************************************)
(* SpecFallback: parse_simple_fallback applied to one utterance, as after  *)
(* a failed remote call.                                                   *)
(***************************************************************************)
\* one keyword of each cluster of the cascade ("game" a second of the first)
ClusterWords == {"gaming", "game", "editing", "coding", "kantor", "kuliah", "murah"}

\* "N juta" and "Njuta"
BudgetPhrases == {ToString(n) \o sep \o "juta" : n \in 0..MaxJuta, sep \in {"", " "}}

Spaced(word) == IF word = "" THEN "" ELSE " " \o word

\* an utterance naming up to two use cases and possibly a budget
FallbackUtterance(w1, w2, phrase) == "Laptop" \o Spaced(w1) \o Spaced(w2) \o Spaced(phrase)

FallbackUtterances ==
    {FallbackUtterance(w1, w2, phrase) :
        w1 \in ClusterWords \cup {""}, w2 \in ClusterWords \cup {""},
        phrase \in BudgetPhrases \cup {""}}

FallbackInit ==
    /\ memory = NewMemory /\ user_message \in FallbackUtterances
    /\ api_result = None /\ result = None /\ api_calls = 0 /\ asked_log = <<>>
    /\ memory_calls = <<>>
    /\ NormIdle /\ SawIdle /\ WeightsIdle

ParseSimpleFallback ==
    /\ result = None
    /\ \E ai_response \in {"", ReplyPlainText} :
          \E out \in {parse_simple_fallback(user_message, ai_response, memory)} :
              /\ result' = Some(out.result)
              /\ memory' = out.memory
    /\ UNCHANGED <<user_message, api_result, api_calls, asked_log, memory_calls,
                   normVars, sawVars, weightVars>>

FallbackNext == ParseSimpleFallback
SpecFallback == FallbackInit /\ [][FallbackNext]_vars

(***************************************************************************)
(* SpecMemory: the methods of ConversationMemory called one after another  *)
(* on the session's memory, and the replacement of the memory by a new     *)
(* one.  memory_calls lists the calls made on the memory in use since it   *)
(* was created or cleared; the record of a clear() names the stores that   *)
(* held something when it was called.                                      *)
(***************************************************************************)
\* the topics check_needs_clarification asks about
Topics == {"budget", "use_case"}

\* laptop['Model'][:30] of the recommended rows
LaptopNames == {"Lenovo Legion 5", "ASUS TUF Gaming A15", "Acer Aspire 5"}

MemoryInit ==
    /\ memory = NewMemory /\ memory_calls = <<>>
    /\ user_message = "" /\ api_result = None /\ result = None
    /\ api_calls = 0 /\ asked_log = <<>>
    /\ NormIdle /\ SawIdle /\ WeightsIdle

MemoryUnchanged ==
    UNCHANGED <<user_message, api_result, result, api_calls, asked_log,
                normVars, sawVars, weightVars>>

MarkClarificationAsked ==
    /\ Len(memory_calls) < MaxCalls
    /\ \E topic \in Topics :
          /\ memory' = mark_clarification_asked(memory, topic)
          /\ memory_calls' = Append(memory_calls, [op |-> "mark", arg |-> topic])
    /\ MemoryUnchanged

AddRecommendedLaptop ==
    /\ Len(memory_calls) < MaxCalls
    /\ \E laptop_name \in LaptopNames :
          /\ memory' = add_recommended_laptop(memory, laptop_name)
          /\ memory_calls' = Append(memory_calls, [op |-> "add", arg |-> laptop_name])
    /\ MemoryUnchanged

\* the turns the chat handler records
TurnMessages ==
    {[role |-> "user", content |-> "laptop gaming 15 juta"],
     [role |-> "assistant", content |-> "Siap! Laptop gaming 15 juta, gas!"]}

\* detected_preferences of a parse result
DetectedPreferences ==
    {Dict([k \in {"budget", "use_case"} |->
              IF k = "budget" THEN Num(15000000) ELSE Str("gaming")]),
     Dict([k \in {"budget"} |-> PyNone])}

AddMessage ==
    /\ Len(memory_calls) < MaxCalls
    /\ \E msg \in TurnMessages :
          /\ memory' = add_message(memory, msg.role, msg.content)
          /\ memory_calls' = Append(memory_calls, [op |-> "message", arg |-> msg.role])
    /\ MemoryUnchanged

UpdatePreferences ==
    /\ Len(memory_calls) < MaxCalls
    /\ \E new_prefs \in DetectedPreferences :
          /\ memory' = update_preferences(memory, new_prefs)
          /\ memory_calls' = Append(memory_calls, [op |-> "prefs", arg |-> DOMAIN new_prefs.v])
    /\ MemoryUnchanged

NonEmptyStores(mem) ==
    {k \in {"messages", "recommended_laptops", "clarifications_asked"} : mem[k] # <<>>}
    \cup (IF Truthy(mem.user_preferences) THEN {"user_preferences"} ELSE {})

Clear ==
    /\ memory_calls # <<>>
    /\ memory' = clear(memory)
    /\ memory_calls' = <<[op |-> "clear", arg |-> NonEmptyStores(memory)]>>
    /\ MemoryUnchanged

\* st.session_state['conversation_memory'] = ConversationMemory()
ResetMemory ==
    /\ memory_calls # <<>>
    /\ memory' = NewMemory
    /\ memory_calls' = <<>>
    /\ MemoryUnchanged

MemoryNext ==
    \/ MarkClarificationAsked \/ AddRecommendedLaptop \/ AddMessage \/ UpdatePreferences
    \/ Clear \/ ResetMemory
SpecMemory == MemoryInit /\ [][MemoryNext]_vars

(***************************************************************************)
(* Python floats (IEEE 754 binary64, round to nearest, ties to even).      *)
(* Every float that star-weight conversion produces is a multiple of       *)
(* 2^-ScaleBits, so a float is held as its sign and the natural number    *)
(* |x| * 2^ScaleBits, written in limbs of LimbBits bits, lowest limb       *)
(* first, without leading zero limbs.                                      *)
(***************************************************************************)
Precision == 53
ScaleBits == 64
LimbBits == 16
LimbBase == 2 ^ LimbBits

RECURSIVE BigTrim(_)
BigTrim(x) ==
    IF x # <<>> /\ x[Len(x)] = 0 THEN BigTrim(SubSeq(x, 1, Len(x) - 1)) ELSE x

Limb(x, i) == IF i <= Len(x) THEN x[i] ELSE 0

RECURSIVE BigAddFrom(_, _, _, _)
BigAddFrom(x, y, i, carry) ==
    IF i > Len(x) /\ i > Len(y)
    THEN (IF carry = 0 THEN <<>> ELSE <<carry>>)
    ELSE <<(Limb(x, i) + Limb(y, i) + carry) % LimbBase>>
            \o BigAddFrom(x, y, i + 1, (Limb(x, i) + Limb(y, i) + carry) \div LimbBase)

BigAdd(x, y) == BigAddFrom(x, y, 1, 0)

\* x - y for x >= y
RECURSIVE BigSubFrom(_, _, _, _)
BigSubFrom(x, y, i, borrow) ==
    IF i > Len(x) THEN <<>>
    ELSE <<(x[i] - Limb(y, i) - borrow) % LimbBase>>
            \o BigSubFrom(x, y, i + 1, IF x[i] - Limb(y, i) - borrow < 0 THEN 1 ELSE 0)

BigSub(x, y) == BigTrim(BigSubFrom(x, y, 1, 0))

\* x < y, decided at the highest limb that differs
RECURSIVE BigLessFrom(_, _, _)
BigLessFrom(x, y, i) ==
    IF i = 0 THEN FALSE
    ELSE IF x[i] # y[i] THEN x[i] < y[i]
    ELSE BigLessFrom(x, y, i - 1)

BigLess(x, y) == IF Len(x) # Len(y) THEN Len(x) < Len(y) ELSE BigLessFrom(x, y, Len(x))

BigDouble(x) == BigAdd(x, x)

RECURSIVE BigHalveFrom(_, _)
BigHalveFrom(x, i) ==
    IF i > Len(x) THEN <<>>
    ELSE <<(x[i] \div 2) + ((Limb(x, i + 1) % 2) * (LimbBase \div 2))>>
            \o BigHalveFrom(x, i + 1)

BigHalve(x) == BigTrim(BigHalveFrom(x, 1))

BigOdd(x) == x # <<>> /\ x[1] % 2 = 1

\* x * k for a small k (k * LimbBase fits a machine word)
RECURSIVE BigTimesFrom(_, _, _, _)
BigTimesFrom(x, k, i, carry) ==
    IF i > Len(x) THEN (IF carry = 0 THEN <<>> ELSE <<carry>>)
    ELSE <<(x[i] * k + carry) % LimbBase>>
            \o BigTimesFrom(x, k, i + 1, (x[i] * k + carry) \div LimbBase)

BigTimes(x, k) == IF k = 0 THEN <<>> ELSE BigTimesFrom(x, k, 1, 0)

\* x * 2^n
BigShiftLeft(x, n) ==
    IF x = <<>> THEN <<>>
    ELSE [i \in 1..(n \div LimbBits) |-> 0] \o BigTimes(x, 2 ^ (n % LimbBits))

\* the number of significant bits
BitLen(x) ==
    IF x = <<>> THEN 0
    ELSE LimbBits * (Len(x) - 1)
            + (CHOOSE n \in 1..LimbBits : 2 ^ (n - 1) <= x[Len(x)] /\ x[Len(x)] < 2 ^ n)

\* n bits are shifted out: q is what remains, half the last bit shifted out,
\* sticky whether any bit shifted out before it (or below x) was set
RECURSIVE RoundShift(_, _, _, _)
RoundShift(x, n, half, sticky) ==
    IF n = 0 THEN [q |-> x, half |-> half, sticky |-> sticky]
    ELSE RoundShift(BigHalve(x), n - 1, BigOdd(x), sticky \/ half)

\* round to nearest, ties to even
RoundNearestEven(r) ==
    IF r.half /\ (r.sticky \/ BigOdd(r.q)) THEN BigAdd(r.q, <<1>>) ELSE r.q

RoundTo(x, sticky, drop) ==
    BigShiftLeft(RoundNearestEven(RoundShift(x, drop, FALSE, sticky)), drop)

\* the float nearest to x (+ a fraction of a unit if sticky): Precision
\* significant bits are kept
Round(x, sticky) ==
    IF BitLen(x) <= Precision THEN x ELSE RoundTo(x, sticky, BitLen(x) - Precision)

Float(neg, mag) == [neg |-> neg /\ mag # <<>>, mag |-> mag]
FloatZero == Float(FALSE, <<>>)
\* float(n) for a small natural number n
FloatOf(n) == Float(FALSE, BigShiftLeft(BigTrim(<<n>>), ScaleBits))

\* a + b
fadd(a, b) ==
    IF a.neg = b.neg THEN Float(a.neg, Round(BigAdd(a.mag, b.mag), FALSE))
    ELSE IF BigLess(a.mag, b.mag) THEN Float(b.neg, Round(BigSub(b.mag, a.mag), FALSE))
    ELSE Float(a.neg, Round(BigSub(a.mag, b.mag), FALSE))

\* a - b
fsub(a, b) == fadd(a, Float(~b.neg, b.mag))

\* Long division, one quotient bit at a time: r < d is the remainder and q
\* the quotient bits found so far, n the number of bits still to find.
RECURSIVE DivBits(_, _, _, _)
RECURSIVE DivBit(_, _, _, _)
DivBits(r, q, d, n) ==
    IF n = 0 THEN [r |-> r, q |-> q]
    ELSE DivBit(BigDouble(r), BigDouble(q), d, n)
DivBit(r, q, d, n) ==
    IF BigLess(r, d) THEN DivBits(r, q, d, n - 1)
    ELSE DivBits(BigSub(r, d), BigAdd(q, <<1>>), d, n - 1)

DivLimb(st, d) == DivBits(st.r, st.q, d, LimbBits)

\* LimbBits further quotient bits, n times
RECURSIVE DivLimbs(_, _, _)
DivLimbs(st, d, n) ==
    IF n = 0 THEN st ELSE DivLimb(DivLimbs(st, d, n - 1), d)

RoundQuotient(st) == Round(st.q, st.r # <<>>)

\* a / b for 0 < a < b
fdiv(a, b) ==
    Float(FALSE, RoundQuotient(DivLimbs([r |-> a.mag, q |-> <<>>], b.mag,
                                        ScaleBits \div LimbBits)))

(***************************************************************************)
(* ai_assistant.py: convert_ai_weights_to_app_weights, and the same        *)
(* computation on the six sliders of the manual mode (app.py).             *)
(***************************************************************************)
\* the criteria in the order of the raw_weights dict
Criteria == <<"price", "ram", "ssd", "rating", "display", "gpu">>

\* star_to_weight = {1: 0.05, 2: 0.10, 3: 0.15, 4: 0.20, 5: 0.25}: the literal
\* k/20 = 5k/100 denotes the float nearest to it
star_to_weight == [k \in 1..5 |-> fdiv(FloatOf(5 * k), FloatOf(100))]

StarWeights == {star_to_weight[k] : k \in DOMAIN star_to_weight}

\* the key of star_to_weight that the rating x equals (True == 1), 0 for none
StarKey(x) ==
    CASE x.t = "num" -> IF x.v[1] \in DOMAIN star_to_weight THEN x.v[1] ELSE 0
      [] x.t = "bool" -> IF x.v[1] THEN 1 ELSE 0
      [] OTHER -> 0

\* the literal 0.15 of star_to_weight.get(x, 0.15)
DefaultWeight == fdiv(FloatOf(15), FloatOf(100))

\* star_to_weight.get(x, 0.15)
StarWeightOr015(x) ==
    IF StarKey(x) # 0 THEN star_to_weight[StarKey(x)] ELSE DefaultWeight

\* raw_weights, in dict order
raw_weights(ai) ==
    [i \in DOMAIN Criteria |-> StarWeightOr015(Get(ai, Criteria[i], Num(3)))]

\* One turn of the loop of the built-in sum over floats: s is the running
\* sum and c the compensation that CPython 3.12 and later keep beside it
\* (Neumaier); earlier versions keep s alone.
SumStepTo(acc, y, t) ==
    [s |-> t,
     c |-> fadd(acc.c, IF ~BigLess(acc.s.mag, y.mag)
                       THEN fadd(fsub(acc.s, t), y)
                       ELSE fadd(fsub(y, t), acc.s))]

SumStep(acc, y) == SumStepTo(acc, y, fadd(acc.s, y))

\* 0 + y, the first addition
SumStart(y) == [s |-> y, c |-> FloatZero]

\* SumStep tabulated, one table for each turn of the loop: the first on the
\* pairs (s, c) that SumStart gives, each later one on the pairs that the
\* table before it yields
SumStepOn(S) == [acc \in S, y \in StarWeights |-> SumStep(acc, y)]

Yields(table) == {table[x] : x \in DOMAIN table}

RECURSIVE SumStepTables(_, _)
SumStepTables(tables, n) ==
    IF n = 0 THEN tables
    ELSE SumStepTables(Append(tables, SumStepOn(Yields(tables[Len(tables)]))), n - 1)

SumStepTable ==
    SumStepTables(<<SumStepOn({SumStart(y) : y \in StarWeights})>>, Len(Criteria) - 2)

RECURSIVE SumFrom(_, _, _)
SumFrom(acc, raw, i) ==
    IF i > Len(raw) THEN acc ELSE SumFrom(SumStepTable[i - 1][acc, raw[i]], raw, i + 1)

\* what sum returns: s, with the compensation added where it is kept and
\* is not zero
SumResult(acc, compensated) ==
    IF compensated /\ acc.c.mag # <<>> THEN fadd(acc.s, acc.c) ELSE acc.s

SumResultTable ==
    [acc \in Yields(SumStepTable[Len(SumStepTable)]), compensated \in BOOLEAN |->
        SumResult(acc, compensated)]

\* sum(raw_weights.values())
total(raw, compensated) == SumResultTable[SumFrom(SumStart(raw[1]), raw, 2), compensated]

Totals == {SumResultTable[x] : x \in DOMAIN SumResultTable}

\* v / total, tabulated
QuotientTable == [v \in StarWeights, t \in Totals |-> fdiv(v, t)]

\* Mutant: the raw weights are returned as they are
normalize_skipped(v, t) == v

normalize(v, t) == QuotientTable[v, t]

AppKeys ==
    <<"price_numeric", "ram_numeric", "ssd_numeric", "rating_numeric",
      "display_numeric", "gpu_numeric">>

\* {k: v / total for k, v in raw_weights.items()}
normalized_weights_of(raw, t) == [i \in DOMAIN raw |-> normalize(raw[i], t)]

convert_ai_weights_to_app_weights(ai, compensated) ==
    normalized_weights_of(raw_weights(ai), total(raw_weights(ai), compensated))

(***************************************************************************)
(* SpecWeights: one conversion of star ratings to criterion weights, of    *)
(* the ratings dict of a parse result (convert_ai_weights_to_app_weights)  *)
(* or of the six sliders of the manual mode.                               *)
(***************************************************************************)
\* manual mode: star_to_weight[price_priority] and so on, summed and divided
manual_weights(stars, compensated) ==
    normalized_weights_of([i \in DOMAIN stars |-> star_to_weight[stars[i]]],
                          total([i \in DOMAIN stars |-> star_to_weight[stars[i]]],
                                compensated))

\* a rating as a parse result can carry it: null or a number, 0 and
\* MaxStar being out of the range of star_to_weight
Ratings == {PyNone} \cup {Num(k) : k \in 0..MaxStar}

\* ratings dicts with at most MaxRated keys, the other keys missing
SparseRatings ==
    {Dict(f) : f \in UNION {[ks -> Ratings] :
                              ks \in {s \in SUBSET StarKeys : Cardinality(s) <= MaxRated}}}

\* ratings dicts with every key at one of the five levels
FullRatings == {Dict(f) : f \in [StarKeys -> {Num(k) : k \in DOMAIN star_to_weight}]}

\* st.slider("...", 1, 5, 3) for each criterion
SliderSettings == [DOMAIN Criteria -> DOMAIN star_to_weight]

WeightsInit ==
    /\ \/ ai_weights \in SparseRatings \cup FullRatings /\ priorities = <<>> /\ wpc = "ai"
       \/ ai_weights = EmptyDict /\ priorities \in SliderSettings /\ wpc = "manual"
    /\ normalized_weights = None
    /\ NormIdle /\ SawIdle /\ ChatIdle

ConvertAiWeights ==
    /\ wpc = "ai"
    /\ \E compensated \in BOOLEAN :
          normalized_weights' = Some(convert_ai_weights_to_app_weights(ai_weights, compensated))
    /\ wpc' = "converted"
    /\ UNCHANGED <<ai_weights, priorities, normVars, sawVars, chatVars>>

ManualWeights ==
    /\ wpc = "manual"
    /\ \E compensated \in BOOLEAN :
          normalized_weights' = Some(manual_weights(priorities, compensated))
    /\ wpc' = "summarized"
    /\ UNCHANGED <<ai_weights, priorities, normVars, sawVars, chatVars>>

WeightsNext == ConvertAiWeights \/ ManualWeights
SpecWeights == WeightsInit /\ [][WeightsNext]_vars

(***************************************************************************)
(* Claims about the normalizers (SpecNorm).                                *)
(***************************************************************************)
InUnitInterval(q) == RatLeq(Zero, q) /\ RatLeq(q, One)
InHalfOpenUnitInterval(q) == RatLt(Zero, q) /\ RatLeq(q, One)

\* C1: for every cost column of non-negative raw values, a literal zero
\* included, normalize_cost returns a column of the same length whose values
\* all lie in (0,1] and whose minimum-raw-value rows are exactly 1.
C1_CostNormalizedToHalfOpenUnit ==
    npc = "cost" =>
        /\ DOMAIN normalized = DOMAIN values
        /\ \A i \in DOMAIN values :
              /\ InHalfOpenUnitInterval(normalized[i])
              /\ (values[i] = SeqMin(values) => normalized[i] = One)

\* C2 as stated: for every benefit column of non-negative raw values,
\* normalize_benefit returns a column of the same length whose values all lie
\* in [0,1] and whose maximum-raw-value rows are exactly 1.
C2_BenefitMaxIsOneAlways ==
    npc = "benefit" =>
        /\ DOMAIN normalized = DOMAIN values
        /\ \A i \in DOMAIN values :
              /\ InUnitInterval(normalized[i])
              /\ (values[i] = SeqMax(values) => normalized[i] = One)

\* C2 amended: the same, except that a column whose maximum is 0 (all raw
\* values zero) normalizes to 0 in every row.
C2_BenefitNormalized ==
    npc = "benefit" =>
        /\ DOMAIN normalized = DOMAIN values
        /\ \A i \in DOMAIN values :
              /\ InUnitInterval(normalized[i])
              /\ (SeqMax(values) > 0 /\ values[i] = SeqMax(values) => normalized[i] = One)
              /\ (SeqMax(values) = 0 => normalized[i] = Zero)

C2_Witness ==
    /\ npc = "benefit"
    /\ Len(values) >= 2
    /\ \E i, j \in DOMAIN values :
          /\ values[i] = SeqMax(values) /\ normalized[i] = One
          /\ RatLt(Zero, normalized[j]) /\ RatLt(normalized[j], One)

(***************************************************************************)
(* Claims about calculate_saw_scores (SpecSaw).                            *)
(***************************************************************************)
\* C3: for non-negative weights summing to 1.0 and non-negative criterion
\* values, every score returned by calculate_saw_scores lies in [0,1].
C3_ScoresInUnitInterval ==
    (spc = "scored" /\ weights_total(weights) = One) =>
        \A i \in DOMAIN df : InUnitInterval(scores[i])

C3_Witness ==
    /\ spc = "scored" /\ weights_total(weights) = One
    /\ \E i, j \in DOMAIN df :
          /\ scores[i] = One
          /\ RatLt(Zero, scores[j]) /\ RatLt(scores[j], One)

\* The contribution of criterion c to row i: weight times normalized value,
\* nothing when the weight mapping does not name c or the data lacks it.
Contribution(c, i) ==
    IF c \in DOMAIN weights /\ c \in DfColumns
    THEN RatMul(weights[c], normalized_matrix[i][c])
    ELSE Zero

\* C4: each score is the sum, over the criteria named in the weight mapping,
\* of weight[c] * normalized[c][alternative]; a criterion named in the weight
\* mapping but absent from the data contributes 0 and raises no error (the
\* call returns a score for every row).
C4_ScoreIsWeightedSum ==
    spc = "scored" =>
        /\ DOMAIN scores = DOMAIN df
        /\ \A i \in DOMAIN df :
              /\ DOMAIN normalized_matrix[i] = (DOMAIN weights) \cap DfColumns
              /\ scores[i] =
                    RatAdd(Contribution("price_numeric", i),
                           RatAdd(Contribution("ram_numeric", i),
                                  Contribution("gpu_numeric", i)))

C4_Witness ==
    /\ spc = "scored"
    /\ "gpu_numeric" \in DOMAIN weights /\ RatLt(Zero, weights["gpu_numeric"])
    /\ "price_numeric" \in DOMAIN weights /\ RatLt(Zero, weights["price_numeric"])
    /\ RatLt(Zero, weights["ram_numeric"])
    /\ \E i \in DOMAIN df :
          /\ RatLt(Zero, Contribution("price_numeric", i))
          /\ RatLt(Zero, Contribution("ram_numeric", i))
          /\ RatLt(normalized_matrix[i]["ram_numeric"], One)

(***************************************************************************)
(* Claims about rank_alternatives (SpecRank).                              *)
(***************************************************************************)
\* C5: rank_alternatives orders the rows by score descending, and two rows
\* with equal scores keep their original input order.
C5_DescendingAndStable ==
    spc = "ranked" =>
        \A j, k \in DOMAIN ranked :
            j < k =>
                /\ RatLeq(ranked[k].SAW_Score, ranked[j].SAW_Score)
                /\ (ranked[j].SAW_Score = ranked[k].SAW_Score
                        => ranked[j].idx < ranked[k].idx)

Min(a, b) == IF a < b THEN a ELSE b

\* C6: rank numbers are 1..N in sorted order (the row at position k has Rank
\* k, scores non-increasing in rank); with a top_n cap the result is exactly
\* the first min(top_n, N) rows of that order, rank numbers unchanged.
C6_RanksAndTopN ==
    spc = "ranked" =>
        /\ Len(ranked) = IF top_n = None THEN Len(scores) ELSE Min(top_n[1], Len(scores))
        /\ \A k \in DOMAIN ranked :
              /\ ranked[k].Rank = k
              /\ ranked[k].idx \in DOMAIN scores
              /\ ranked[k].SAW_Score = scores[ranked[k].idx]
              /\ \A j \in DOMAIN ranked :
                    /\ (j # k => ranked[j].idx # ranked[k].idx)
                    /\ (j < k => RatLeq(ranked[k].SAW_Score, ranked[j].SAW_Score))
              \* the rows cut off by top_n all come after the rows kept
              /\ \A i \in DOMAIN scores :
                    (\A j \in DOMAIN ranked : ranked[j].idx # i)
                        => RatLeq(scores[i], ranked[k].SAW_Score)

C6_Witness ==
    /\ spc = "ranked" /\ top_n = Some(2) /\ Len(scores) = 3 /\ Len(ranked) = 2
    /\ ranked[1].idx = 3 /\ ranked[2].Rank = 2
    /\ RatLt(ranked[2].SAW_Score, ranked[1].SAW_Score)

(***************************************************************************)
(* Claims about the chat turn (SpecChat).                                  *)
(***************************************************************************)
Count(q, x) == Cardinality({i \in DOMAIN q : q[i] = x})

\* C8: over any sequence of turns of one session with no memory reset in
\* between, the local clarification gate emits the question of each topic
\* (budget, use_case) at most once, however often the user repeats the same
\* ambiguous utterance.  asked_log is the list of topics the gate has asked
\* about since the last memory reset.
C8_EachTopicAskedAtMostOnce ==
    \A topic \in {"budget", "use_case"} : Count(asked_log, topic) <= 1

\* the user repeats a vague-budget utterance after the budget question was
\* asked, the budget is still unknown, and the gate lets the turn through to
\* the remote call
C8_Witness ==
    /\ user_message \in Utterances
    /\ TextFacts[user_message].vague_budget
    /\ ~Truthy(GetOrNone(memory.user_preferences, "budget"))
    /\ Count(asked_log, "budget") = 1
    /\ api_calls = 1
    /\ result # None /\ ~result[1].needs_clarification

\* the utterances C9 is about: a vague budget term, no explicit amount, no
\* named use case
VagueBudgetOnly(m) ==
    m \in Utterances /\ TextFacts[m].vague_budget /\ ~TextFacts[m].use_case

\* a turn that starts from the empty memory and processes such an utterance
VagueBudgetTurnOnEmptyMemory ==
    memory = NewMemory /\ VagueBudgetOnly(user_message') /\ ParseUserMessage

\* C9 as stated: for an utterance with a vague budget term, no explicit
\* amount and no named use case, processed with empty memory,
\* parse_user_message returns needs_clarification = true with exactly one
\* clarification question, that question is about budget, and the topic
\* "budget" is marked asked.
C9_ExactlyOneBudgetQuestion ==
    [][VagueBudgetTurnOnEmptyMemory =>
          /\ result'[1].needs_clarification
          /\ result'[1].clarification_questions = List(<<Str(BudgetQuestion)>>)
          /\ InSeq("budget", memory'.clarifications_asked)]_vars

\* C9 amended: for such an utterance processed with empty memory,
\* parse_user_message returns needs_clarification = true without a remote
\* call, the first question is the budget question and "budget" is marked
\* asked; it is the only question unless the utterance also contains a
\* vague-request keyword ("cari", "bagus", ...), in which case the use-case
\* question follows as the second one and "use_case" is marked asked as well.
C9_BudgetQuestionFirst ==
    [][VagueBudgetTurnOnEmptyMemory =>
          /\ result'[1].needs_clarification
          /\ api_calls' = 0
          /\ result'[1].clarification_questions =
                IF TextFacts[user_message'].vague_request
                THEN List(<<Str(BudgetQuestion), Str(UseCaseQuestion)>>)
                ELSE List(<<Str(BudgetQuestion)>>)
          /\ memory'.clarifications_asked =
                IF TextFacts[user_message'].vague_request
                THEN <<"budget", "use_case">>
                ELSE <<"budget">>]_vars

\* "cari laptop murah" was processed with empty memory: two questions
C9_Witness ==
    /\ user_message = "cari laptop murah"
    /\ api_calls = 0
    /\ result # None
    /\ result[1].needs_clarification
    /\ Len(result[1].clarification_questions.v) = 2
    /\ memory = [NewMemory EXCEPT !.clarifications_asked = <<"budget", "use_case">>]

\* C10: whenever the remote interpretation call fails (timeout, connection
\* error or any other request error), parse_user_message makes no second
\* remote call and returns the keyword fallback's result: success = true,
\* needs_clarification = false, a complete six-criterion star-weight set and
\* a non-empty response message.
C10_FailureFallsBack ==
    (api_result # None /\ ~api_result[1].success) =>
        /\ api_calls = 1
        /\ result[1] = parse_simple_fallback(user_message, "", NewMemory).result
        /\ result[1].success
        /\ ~result[1].needs_clarification
        /\ result[1].weights.t = "dict"
        /\ DOMAIN result[1].weights.v = StarKeys
        /\ \A k \in StarKeys :
              /\ result[1].weights.v[k].t = "num"
              /\ result[1].weights.v[k].v[1] \in 1..5
        /\ result[1].response_message.t = "str"
        /\ result[1].response_message.v[1] # ""

\* the remote call timed out on a turn the gate let through
C10_Witness ==
    /\ api_result # None
    /\ ~api_result[1].success
    /\ api_result[1].error = "Request timeout. Silakan coba lagi."
    /\ api_calls = 1
    /\ result[1].success
    /\ result[1].use_case = Str("gaming")

(***************************************************************************)
(* Claims about the star-rating conversion (SpecWeights).                  *)
(***************************************************************************)
\* the level a rating counts as: its own when it is one of the five levels,
\* 3 when it is missing, null or out of range
RatingLevel(ai, key) ==
    IF key \in DOMAIN ai.v /\ ai.v[key].t = "num" /\ ai.v[key].v[1] \in 1..5
    THEN ai.v[key].v[1] ELSE 3

\* the six levels behind the weights of the current state
LevelsNow ==
    IF wpc = "converted" THEN [i \in DOMAIN Criteria |-> RatingLevel(ai_weights, Criteria[i])]
    ELSE priorities

RECURSIVE SumOfLevels(_, _)
SumOfLevels(levels, i) == IF i > Len(levels) THEN 0 ELSE levels[i] + SumOfLevels(levels, i + 1)

\* the exact sum of the magnitudes of the floats ws[i..]
RECURSIVE ExactSum(_, _)
ExactSum(ws, i) == IF i > Len(ws) THEN <<>> ELSE BigAdd(ws[i].mag, ExactSum(ws, i + 1))

Unit == FloatOf(1).mag

BigDistance(x, y) == IF BigLess(x, y) THEN BigSub(y, x) ELSE BigSub(x, y)

\* x * 10^9
Billionfold(x) == BigTimes(BigTimes(BigTimes(x, 1000), 1000), 1000)

\* |x / den - y / den| <= 1e-9
Within1e9(x, y, den) == ~BigLess(BigTimes(Unit, den), Billionfold(BigDistance(x, y)))

AllPositive(ws) == \A i \in DOMAIN ws : ~ws[i].neg /\ ws[i].mag # <<>>

\* each weight is within 1e-9 of level / (sum of the six levels), the share
\* that weights proportional to 0.05 * level and summing to 1 have
Proportional(ws, levels) ==
    \A i \in DOMAIN ws :
        Within1e9(BigTimes(ws[i].mag, SumOfLevels(levels, 1)),
                  BigTimes(Unit, levels[i]), SumOfLevels(levels, 1))

WeightsDone == wpc \in {"converted", "summarized"}

\* C7 as stated: for every assignment of star ratings (the five levels, and
\* missing or out-of-range ratings counting as level 3) the conversion
\* returns six positive weights that sum to exactly 1.0 and are proportional
\* to the lookup values.
C7_SumExactlyOne ==
    WeightsDone =>
        /\ Len(normalized_weights[1]) = Len(Criteria)
        /\ AllPositive(normalized_weights[1])
        /\ ExactSum(normalized_weights[1], 1) = Unit
        /\ Proportional(normalized_weights[1], LevelsNow)

\* C7 amended: for every assignment of star ratings (the five levels, and
\* missing or out-of-range ratings counting as level 3) the conversion
\* returns six positive weights whose sum is within 1e-9 of 1.0 and each of
\* which is within 1e-9 of its share level / (sum of the six levels).
C7_SumOneWithinTolerance ==
    WeightsDone =>
        /\ Len(normalized_weights[1]) = Len(Criteria)
        /\ AllPositive(normalized_weights[1])
        /\ Within1e9(ExactSum(normalized_weights[1], 1), Unit, 1)
        /\ Proportional(normalized_weights[1], LevelsNow)

\* a dict with price at level 5, gpu out of range and four ratings missing
\* has been converted, and price weighs more than gpu
C7_Witness ==
    /\ wpc = "converted"
    /\ ai_weights = Dict([k \in {"price", "gpu"} |-> IF k = "price" THEN Num(5) ELSE Num(MaxStar)])
    /\ BigLess(normalized_weights[1][6].mag, normalized_weights[1][1].mag)

(***************************************************************************)
(* Claims about malformed remote replies (SpecChat).                       *)
(***************************************************************************)
\* replies in which the regular expression finds no text that json.loads accepts
UnparseableReplies == {r \in ReplyTexts : JsonMatch[r] \notin DOMAIN JsonObjects}

\* replies whose JSON object parses but lacks fields of the expected schema or
\* carries them with a wrong type
SchemaMismatchReplies == {ReplyEmptyObject, ReplyNullPreferences, ReplyWrongTypes}

RemoteReplyIn(replies) ==
    /\ api_result # None
    /\ api_result[1].success
    /\ api_result[1].response \in replies

ReturnedFallbackFiltersAndWeights ==
    /\ result[1].filters = FallbackFilters(TextFacts[user_message])
    /\ result[1].weights = FallbackWeights(TextFacts[user_message].cluster)

\* C11: whenever the remote reply holds no parseable JSON object, or JSON that
\* parses but does not match the expected schema, parse_user_message returns
\* the filters and weights of the keyword fallback, nothing of the reply.
C11_MalformedReplyFallsBack ==
    RemoteReplyIn(UnparseableReplies \cup SchemaMismatchReplies) =>
        ReturnedFallbackFiltersAndWeights

\* the part of C11 that the code keeps: a reply without parseable JSON
C11_UnparseableReplyFallsBack ==
    RemoteReplyIn(UnparseableReplies) => ReturnedFallbackFiltersAndWeights

(***************************************************************************)
(* Claims about the preference facts of the memory (SpecChat).             *)
(***************************************************************************)
\* the memory holds a fact (a value other than null) under key
StoredFact(mem, key) ==
    /\ key \in DOMAIN mem.user_preferences.v
    /\ mem.user_preferences.v[key] # PyNone

\* C12: a preference fact (budget or use_case) once stored in the memory is
\* never cleared by a later turn: after every step it is still stored (as it
\* was or overwritten by another non-null value), unless the step is the
\* explicit reset of the memory.
C12_FactNeverClearedByNull ==
    [][\A key \in {"budget", "use_case"} :
          StoredFact(memory, key) => (StoredFact(memory', key) \/ ClearChat)]_vars

(***************************************************************************)
(* Claims about the keyword fallback (SpecFallback).                       *)
(***************************************************************************)
FallbackDone == result # None

\* the utterance is built of the words w1, w2 and the budget "N juta"
UtteranceNames(w1, w2, n) ==
    \E sep \in {"", " "} :
        user_message = FallbackUtterance(w1, w2, ToString(n) \o sep \o "juta")

\* C13: for any utterance that names the gaming use case and an explicit
\* budget of N juta the keyword fallback returns N * 1,000,000 as price_max
\* and as detected budget, use_case "gaming", ram_min 16, gpu_min 4 and the
\* weight preset {price:2, ram:4, ssd:3, rating:3, display:4, gpu:5}.
C13_GamingWithBudget ==
    FallbackDone =>
        \A w1 \in ClusterWords \cup {""}, w2 \in ClusterWords \cup {""}, n \in 0..MaxJuta :
            (UtteranceNames(w1, w2, n) /\ {w1, w2} \cap {"gaming", "game"} # {}) =>
                /\ result[1].success
                /\ result[1].filters =
                      Dict([k \in {"price_max", "ram_min", "gpu_min"} |->
                              Num(CASE k = "price_max" -> n * 1000000
                                    [] k = "ram_min" -> 16
                                    [] k = "gpu_min" -> 4)])
                /\ result[1].detected_preferences =
                      Dict([k \in {"budget", "use_case"} |->
                              IF k = "budget" THEN Num(n * 1000000) ELSE Str("gaming")])
                /\ result[1].use_case = Str("gaming")
                /\ result[1].weights = Stars(2, 4, 3, 3, 4, 5)
                /\ memory.user_preferences = result[1].detected_preferences

\* "Laptop editing game 12 juta" has been parsed: 12,000,000 and gaming
C13_Witness ==
    /\ FallbackDone
    /\ user_message = "Laptop editing game 12 juta"
    /\ result[1].filters.v["price_max"] = Num(12000000)
    /\ result[1].use_case = Str("gaming")

\* the clusters of which a keyword occurs in the utterance
OccurringClusters(message_lower) ==
    {i \in DOMAIN Clusters : ContainsAny(message_lower, Clusters[i].words)}

\* the filter floors of a result: its filters other than the budget ceiling
FilterFloors(filters) == [k \in DOMAIN filters.v \ {"price_max"} |-> filters.v[k]]

\* the result is what cluster i alone gives
ResultOfCluster(i) ==
    /\ result[1].weights = Clusters[i].weights
    /\ FilterFloors(result[1].filters) = Clusters[i].filters
    /\ result[1].use_case = Str(Clusters[i].use_case)
    /\ IF Clusters[i].use_case = ""
       THEN "use_case" \notin DOMAIN result[1].detected_preferences.v
       ELSE result[1].detected_preferences.v["use_case"] = Str(Clusters[i].use_case)

FirstOccurringClusterWins(occurring) ==
    \A i \in occurring : (\A j \in occurring : i <= j) => ResultOfCluster(i)

\* C14: when keywords of several clusters occur in an utterance, the weights,
\* filter floors and use_case label that the keyword fallback returns are
\* those of the first of these clusters in the order gaming, editing,
\* programming, office, student, generic budget, with nothing of the others.
C14_FirstClusterWins ==
    FallbackDone => FirstOccurringClusterWins(OccurringClusters(lower(user_message)))

\* "Laptop kuliah editing" has been parsed as editing, the earlier cluster of
\* the two although its keyword comes later in the text
C14_Witness ==
    /\ FallbackDone
    /\ user_message = "Laptop kuliah editing"
    /\ result[1].use_case = Str("editing")
    /\ result[1].weights = Stars(2, 5, 4, 3, 4, 5)
    /\ DOMAIN result[1].filters.v = {"gpu_min", "ram_min", "ssd_min"}

(***************************************************************************)
(* Claims about the methods of ConversationMemory (SpecMemory).            *)
(***************************************************************************)
\* the arguments of the calls of op made on the memory in use, in call order
RECURSIVE ArgsOf(_, _)
ArgsOf(calls, op) ==
    IF calls = <<>> THEN <<>>
    ELSE (IF Head(calls).op = op THEN <<Head(calls).arg>> ELSE <<>>) \o ArgsOf(Tail(calls), op)

\* C15: marking a topic twice leaves the memory as marking it once does, and
\* once a topic has been marked should_ask_clarification returns false for
\* it until the memory is reset.
C15_MarkIsIdempotent ==
    \A topic \in Topics :
        /\ mark_clarification_asked(mark_clarification_asked(memory, topic), topic)
              = mark_clarification_asked(memory, topic)
        /\ InSeq(topic, ArgsOf(memory_calls, "mark")) =>
              /\ ~should_ask_clarification(memory, topic)
              /\ mark_clarification_asked(memory, topic) = memory

\* "budget" has been marked twice in a row and is listed once
C15_Witness ==
    /\ ArgsOf(memory_calls, "mark") = <<"budget", "budget">>
    /\ memory.clarifications_asked = <<"budget">>
    /\ ~should_ask_clarification(memory, "budget")

\* the elements of names in the order of their first occurrence
RECURSIVE FirstInsertions(_, _)
FirstInsertions(names, seen) ==
    IF names = <<>> THEN <<>>
    ELSE IF Head(names) \in seen THEN FirstInsertions(Tail(names), seen)
    ELSE <<Head(names)>> \o FirstInsertions(Tail(names), seen \cup {Head(names)})

\* C20: after any sequence of add_recommended_laptop calls the list of
\* recommended alternatives holds no name twice and keeps the names in the
\* order of their first insertion.
C20_RecommendedDeduplicatedInOrder ==
    /\ \A i, j \in DOMAIN memory.recommended_laptops :
          memory.recommended_laptops[i] = memory.recommended_laptops[j] => i = j
    /\ memory.recommended_laptops = FirstInsertions(ArgsOf(memory_calls, "add"), {})

\* a name has been added, then another, then the first again
C20_Witness ==
    /\ ArgsOf(memory_calls, "add") = <<"Acer Aspire 5", "Lenovo Legion 5", "Acer Aspire 5">>
    /\ memory.recommended_laptops = <<"Acer Aspire 5", "Lenovo Legion 5">>

AllZero(frame, col) == \A i \in DOMAIN frame : frame[i][col] = 0

ZeroBenefitColumns ==
    {c \in criteria_columns(weights) : CRITERIA_CONFIG(c) = "benefit" /\ AllZero(df, c)}

\* C17: when a benefit column holds only zeros (a single alternative with a
\* zero included), normalize_benefit gives 0 for every row, and the scoring
\* completes with that criterion contributing 0: each score is the weighted
\* sum over the other criteria.
C17_ZeroBenefitColumn ==
    spc = "scored" =>
        \A c \in ZeroBenefitColumns :
            /\ Len(normalized_matrix) = Len(df) /\ Len(scores) = Len(df)
            /\ \A i \in DOMAIN df :
                /\ normalized_matrix[i][c] = Zero
                /\ scores[i] = WeightedSum(normalized_matrix[i], weights,
                                           criteria_columns(weights) \ {c})

\* a single alternative whose weighted ram is 0 has been scored, and its
\* score is what the price contributes
C17_Witness ==
    /\ spc = "scored" /\ Len(df) = 1
    /\ ZeroBenefitColumns = {"ram_numeric"}
    /\ weights["ram_numeric"] = One
    /\ "price_numeric" \in DOMAIN weights /\ weights["price_numeric"] = One
    /\ scores[1] = One

(***************************************************************************)
(* Claims about an empty filter result (SpecFilter).                       *)
(***************************************************************************)
Fits(r, f) ==
    \A k \in DOMAIN f : f[k][1] <= r[k \o "_numeric"] /\ r[k \o "_numeric"] <= f[k][2]

InCategory(r) == selected_cat = "Semua Laptop" \/ r.Category = selected_cat

\* the laptops of the catalogue that the request's category and ranges admit
Admitted == {i \in DOMAIN catalogue : InCategory(catalogue[i]) /\ Fits(catalogue[i], app_filters)}

InvertedRange == \E k \in DOMAIN app_filters : app_filters[k][1] > app_filters[k][2]

\* C18: a request whose filters admit no laptop (always so when a range has
\* min > max) ends with the "no matches" text of its path, and neither
\* calculate_saw_scores nor rank_alternatives has been called for it; this
\* holds on the chat path and on the manual path.
C18_NoMatchesSkipsScoring ==
    fpc \in {"chat", "manual"} =>
        /\ InvertedRange => Admitted = {}
        /\ Admitted = {} =>
              /\ notice = (IF fpc = "chat" THEN NoMatchesChat ELSE NoMatchesManual)
              /\ scoring_calls = 0
              /\ scores = <<>> /\ ranked = <<>>
        /\ Admitted # {} => notice = "" /\ scoring_calls = 1 /\ Len(ranked) >= 1

\* a chat request with a price range of min 2 > max 1 over a catalogue that
\* has laptops of the chosen category has ended with the text
C18_Witness ==
    /\ fpc = "chat" /\ selected_cat = "Gaming" /\ Len(catalogue) = 2
    /\ catalogue[1].Category = "Gaming"
    /\ app_filters["price"] = <<2, 1>> /\ app_filters["ram"] = <<0, 2>>
    /\ notice = NoMatchesChat /\ scoring_calls = 0

(***************************************************************************)
(* Claims about the conversion of the extracted filters (SpecConvert).     *)
(***************************************************************************)
Supplied(key) == key \in DOMAIN ai_filters.v /\ ai_filters.v[key].t # "none"

\* the data set's observed minimum and maximum of a criterion
ObservedMin(c) ==
    IF c \in {"ram", "ssd", "gpu"} THEN Rat(SeqMin(data_stats[c].options), 1)
    ELSE data_stats[c].min

ObservedMax(c) ==
    IF c \in {"ram", "ssd", "gpu"} THEN Rat(SeqMax(data_stats[c].options), 1)
    ELSE data_stats[c].max

\* a bound in the unit of the data set: prices are extracted in rupiah and
\* compared in rupees
InDataUnit(c, n) == IF c = "price" THEN Rat(n, IdrPerInr) ELSE Rat(n, 1)

\* C19: for every criterion, a lower (upper) bound that is absent or null in
\* the extracted filters becomes the data set's observed minimum (maximum),
\* and a bound that is supplied is used as given.
C19_BoundsDefaultOrAsGiven ==
    cpc = "converted" =>
        \A c \in FilterCriteria :
            /\ app_filters[c][1] =
                  IF Supplied(c \o "_min")
                  THEN InDataUnit(c, ai_filters.v[c \o "_min"].v[1])
                  ELSE ObservedMin(c)
            /\ app_filters[c][2] =
                  IF Supplied(c \o "_max")
                  THEN InDataUnit(c, ai_filters.v[c \o "_max"].v[1])
                  ELSE ObservedMax(c)

(***************************************************************************)
(* Claims about the full reset of the memory (SpecMemory).                 *)
(***************************************************************************)
\* the memory has just been cleared, or replaced by a new one
JustReset == memory_calls = <<>> \/ memory_calls[Len(memory_calls)].op = "clear"

\* C21: after a full reset, whatever calls preceded it, the four stores of
\* the memory (turns, preference facts, recommended alternatives, asked
\* topics) are empty, should_ask_clarification returns true for every topic
\* and the context summary is empty.
C21_ResetClearsAllStores ==
    JustReset =>
        /\ memory.messages = <<>>
        /\ memory.user_preferences = EmptyDict
        /\ memory.recommended_laptops = <<>>
        /\ memory.clarifications_asked = <<>>
        /\ \A topic \in Topics : should_ask_clarification(memory, topic)
        /\ get_context_summary(memory) = ""

\* clear() has been called on a memory whose four stores all held something
C21_Witness ==
    /\ memory_calls =
          <<[op |-> "clear",
             arg |-> {"messages", "user_preferences", "recommended_laptops",
                      "clarifications_asked"}]>>
    /\ memory = NewMemory
    /\ get_context_summary(memory) = ""

(***************************************************************************)
(* Claims about the alternatives of an explanation (SpecExplain).          *)
(***************************************************************************)
ExplanationBuilt == explanation # None /\ "raised" \notin DOMAIN explanation

OfKind(statements, kind) == SelectSeq(statements, LAMBDA st : st.kind = kind)

\* the candidates priced strictly below, and those with a GPU value
\* strictly above, the chosen alternative
CheaperRows == {i \in DOMAIN all_candidates : all_candidates[i].price_numeric < laptop.price_numeric}
BetterGpuRows == {i \in DOMAIN all_candidates : all_candidates[i].gpu_numeric > laptop.gpu_numeric}

Names(st, i, value) == st.about = Truncate(all_candidates[i].Model, 30) /\ st.value = value

ChosenUseCase == lower(Get(user_prefs, "use_case", Str("")).v[1])

\* C22: generate_explanation fills the alternatives only for the top-ranked
\* pick of a pool of more than one candidate.  It then names a cheaper
\* alternative exactly when some candidate is priced strictly below the
\* chosen one, and that is a cheapest candidate; and it names a stronger-GPU
\* alternative only when the use case depends on the GPU (it does so for
\* gaming and editing), and that is a candidate of the highest GPU value
\* among those strictly above the chosen one's.
C22_AlternativesOfTopPick ==
    ExplanationBuilt =>
        /\ explanation.alternatives # <<>> => rank = 1 /\ Len(all_candidates) > 1
        /\ (rank = 1 /\ Len(all_candidates) > 1) =>
              /\ Len(OfKind(explanation.alternatives, "lebih hemat"))
                    = (IF CheaperRows # {} THEN 1 ELSE 0)
              /\ \A k \in DOMAIN explanation.alternatives :
                    explanation.alternatives[k].kind = "lebih hemat" =>
                        \E i \in CheaperRows :
                            /\ Names(explanation.alternatives[k], i,
                                     all_candidates[i].price_numeric * IdrPerInr)
                            /\ \A j \in CheaperRows :
                                  all_candidates[i].price_numeric <= all_candidates[j].price_numeric
              /\ Len(OfKind(explanation.alternatives, "GPU lebih kuat"))
                    = (IF BetterGpuRows # {} /\ ContainsAny(ChosenUseCase, {"gaming", "editing"})
                       THEN 1 ELSE 0)
              /\ \A k \in DOMAIN explanation.alternatives :
                    explanation.alternatives[k].kind = "GPU lebih kuat" =>
                        /\ GpuSensitive(ChosenUseCase)
                        /\ \E i \in BetterGpuRows :
                              /\ Names(explanation.alternatives[k], i, all_candidates[i].gpu_numeric)
                              /\ \A j \in BetterGpuRows :
                                    all_candidates[i].gpu_numeric >= all_candidates[j].gpu_numeric
              /\ Len(explanation.alternatives)
                    = Len(OfKind(explanation.alternatives, "lebih hemat"))
                        + Len(OfKind(explanation.alternatives, "GPU lebih kuat"))

\* the top pick of three for gaming, with two cheaper candidates and one of
\* a stronger GPU: the cheapest and the strongest are named
C22_Witness ==
    /\ ExplanationBuilt /\ rank = 1 /\ Len(all_candidates) = 3
    /\ laptop.Model = "ASUS TUF Gaming A15"
    /\ all_candidates[2].Model = "ASUS TUF Gaming A15"
    /\ all_candidates[3].Model = "Acer Aspire 5"
    /\ ChosenUseCase = "gaming"
    /\ explanation.alternatives =
          <<Statement("lebih hemat", "Acer Aspire 5", 41000 * IdrPerInr),
            Statement("GPU lebih kuat", "Lenovo Legion 5 Ryzen 7 RTX 30", 6)>>

(***************************************************************************)
(* Claims about a turn that the local gate ends (SpecChat).                *)
(***************************************************************************)
\* a step that is a call of parse_user_message (the other step of a session
\* is the reset) in which check_needs_clarification asks
GateTurn ==
    ~ClearChat /\ check_needs_clarification(user_message', memory).needed

\* C23: when the local clarification gate triggers, parse_user_message ends
\* the turn without a remote call: the result has needs_clarification =
\* true, the gate's questions, success = false, empty filters and weights,
\* and every topic asked about is marked asked in the memory.
C23_GateEndsTurnLocally ==
    [][GateTurn =>
          /\ api_calls' = 0 /\ api_result' = None
          /\ result'[1].needs_clarification = TRUE
          /\ result'[1].success = FALSE
          /\ result'[1].clarification_questions =
                List([i \in DOMAIN check_needs_clarification(user_message', memory).questions |->
                        Str(check_needs_clarification(user_message', memory).questions[i])])
          /\ Len(result'[1].clarification_questions.v) >= 1
          /\ result'[1].filters = EmptyDict /\ result'[1].weights = EmptyDict
          /\ \A i \in DOMAIN check_needs_clarification(user_message', memory).missing_info :
                InSeq(check_needs_clarification(user_message', memory).missing_info[i],
                      memory'.clarifications_asked)
          /\ memory'.user_preferences = memory.user_preferences]_vars

\* after a turn that asked about the use case, a vague-budget utterance was
\* ended by the gate with the budget question alone
C23_Witness ==
    /\ result # None /\ result[1].needs_clarification = TRUE /\ api_calls = 0
    /\ api_result = None
    /\ result[1].clarification_questions = List(<<Str(BudgetQuestion)>>)
    /\ memory.clarifications_asked = <<"use_case", "budget">>

(***************************************************************************)
(* Claims about a JSON object embedded in a longer reply (SpecChat).       *)
(***************************************************************************)
\* the first balanced {...} block of the replies that embed the understood
\* object in free text
FirstBalancedBlock == SubSeq(ReplyUnderstood, Len("Siap! ") + 1, Len(ReplyUnderstood))

EmbeddingReplies == {ReplyUnderstood, ReplyTrailingBraces}

\* C24: a valid JSON object is recognised wherever it is embedded in a longer
\* free-text reply, also when more text containing braces follows it: the
\* result is built from the first balanced {...} block of the reply.
C24_EmbeddedObjectRecognised ==
    RemoteReplyIn(EmbeddingReplies) =>
        /\ FirstBalancedBlock \in DOMAIN JsonObjects
        /\ result[1].success = TRUE
        /\ result[1].filters = JsonObjects[FirstBalancedBlock]["filters"]
        /\ result[1].weights = JsonObjects[FirstBalancedBlock]["weights"]
        /\ result[1].response_message = JsonObjects[FirstBalancedBlock]["response_message"]

(***************************************************************************)
(* Claims about a reply that was not understood (SpecChat).                *)
(***************************************************************************)
\* replies that are a JSON object with needs_clarification unset and
\* understood = false
NotUnderstoodReplies == {ReplyNotUnderstood, ReplyApology}

DefaultApology == "Maaf, saya kurang memahami kebutuhan Anda. Bisa dijelaskan lebih detail?"

\* a call of parse_user_message that the remote side answered with such a reply
NotUnderstoodTurn ==
    /\ ~ClearChat
    /\ api_result' # None /\ api_result'[1].success
    /\ api_result'[1].response \in NotUnderstoodReplies

\* C25: when the remote reply is a valid JSON object with needs_clarification
\* unset and understood = false, parse_user_message reports success = false,
\* returns the reply's message (the default apology if it has none) with
\* empty filters and weights, and leaves the preferences of the conversation
\* memory as they were.
C25_NotUnderstoodReportsNoSuccess ==
    [][NotUnderstoodTurn =>
          /\ result'[1].success = FALSE
          /\ result'[1].needs_clarification = FALSE
          /\ result'[1].response_message =
                Get(Dict(JsonObjects[api_result'[1].response]), "response_message",
                    Str(DefaultApology))
          /\ result'[1].filters = EmptyDict /\ result'[1].weights = EmptyDict
          /\ memory'.user_preferences = memory.user_preferences]_vars

\* with a budget and a use case stored, the reply that carries a message,
\* filters and another budget was answered with the message alone
C25_Witness ==
    /\ api_result # None /\ api_result[1].success
    /\ api_result[1].response = ReplyApology
    /\ result[1].success = FALSE
    /\ result[1].response_message = Str("Bisa dijelaskan lagi?")
    /\ result[1].filters = EmptyDict
    /\ memory.user_preferences =
          Dict([k \in {"budget", "use_case"} |->
                  IF k = "budget" THEN Num(15000000) ELSE Str("gaming")])

(***************************************************************************)
(* Claims about the number of turns the local gate ends (SpecChat).        *)
(***************************************************************************)
\* the topics a step appends to the list of topics asked by the gate
NewlyAsked == SubSeq(asked_log', Len(asked_log) + 1, Len(asked_log'))

\* C26: within one session with no reset, the local gate ends at most two
\* turns with a clarification: a turn it ends asks at least one topic, out
\* of budget and use_case, that it has not asked before, and once both have
\* been asked every turn goes on to the remote interpretation or to the
\* fallback, whatever the utterance.
C26_GateEndsAtMostTwoTurns ==
    [][/\ GateTurn =>
            /\ Len(asked_log') > Len(asked_log)
            /\ SubSeq(asked_log', 1, Len(asked_log)) = asked_log
            /\ \A i \in DOMAIN NewlyAsked :
                  /\ NewlyAsked[i] \in {"budget", "use_case"}
                  /\ ~InSeq(NewlyAsked[i], asked_log)
            /\ Len(asked_log') <= 2
       /\ (~ClearChat /\ Len(asked_log) = 2) =>
            /\ ~check_needs_clarification(user_message', memory).needed
            /\ api_calls' = 1
            /\ result'[1].needs_clarification = TRUE => api_result' # None]_vars

\* the gate has ended two turns, asking about the use case and then about
\* the budget, and a third utterance that is vague about both went on to the
\* remote call with nothing known yet
C26_Witness ==
    /\ asked_log = <<"use_case", "budget">>
    /\ api_calls = 1 /\ api_result # None
    /\ TextFacts[user_message].vague_budget /\ TextFacts[user_message].vague_request
    /\ memory.user_preferences = EmptyDict

(***************************************************************************)
(* Claims about the outcome classes of parse_user_message (SpecChat).      *)
(***************************************************************************)
\* the three outcome classes of a returned result
AsksClarification(res) == res.needs_clarification = TRUE
Interpreted(res) == res.needs_clarification = FALSE /\ res.success = TRUE
NotInterpreted(res) == res.needs_clarification = FALSE /\ res.success = FALSE

\* C27: every result returned by parse_user_message is in exactly one outcome
\* class: success and needs_clarification are never both true, and a result
\* with needs_clarification true carries empty filters, empty weights and
\* empty detected_preferences.
C27_OneOutcomeClass ==
    result # None =>
        /\ result[1].success \in BOOLEAN
        /\ result[1].needs_clarification \in BOOLEAN
        /\ ~(result[1].success = TRUE /\ result[1].needs_clarification = TRUE)
        /\ Cardinality({c \in {"asks", "interpreted", "not interpreted"} :
                CASE c = "asks" -> AsksClarification(result[1])
                  [] c = "interpreted" -> Interpreted(result[1])
                  [] OTHER -> NotInterpreted(result[1])}) = 1
        /\ AsksClarification(result[1]) =>
              /\ result[1].filters = EmptyDict
              /\ result[1].weights = EmptyDict
              /\ result[1].detected_preferences = EmptyDict

\* the remote reply asked for a clarification and carried filters, weights
\* and detected preferences of its own; the returned result asks and has none
C27_Witness ==
    /\ result # None /\ api_result # None
    /\ api_result[1].success /\ api_result[1].response = ReplyAsksWithAnswer
    /\ AsksClarification(result[1])
    /\ result[1].clarification_questions = List(<<Str("Untuk apa laptopnya?")>>)
    /\ result[1].filters = EmptyDict /\ result[1].detected_preferences = EmptyDict

(***************************************************************************)
(* Claims about the gate and the fallback on explicit budgets (SpecChat).  *)
(***************************************************************************)
\* the remote call failed, so the turn was answered by parse_simple_fallback
\* on the utterance
FallbackAnswered ==
    /\ result # None /\ api_calls = 1
    /\ api_result # None /\ ~api_result[1].success

\* C28: the clarification gate and the keyword fallback agree on what an
\* explicit budget is: for every utterance in which the gate recognises an
\* explicit numeric budget amount, the keyword fallback run on the same
\* utterance extracts a budget, as the price_max filter and as the detected
\* budget.
C28_GateAndFallbackAgreeOnBudget ==
    (FallbackAnswered /\ has_explicit_budget(lower(user_message))) =>
        /\ GetOrNone(result[1].filters, "price_max") # PyNone
        /\ GetOrNone(result[1].detected_preferences, "budget") # PyNone

(***************************************************************************)
(* Claims about the ranges of an empty filter set (SpecStats).             *)
(***************************************************************************)
\* C29: with an empty extracted filter set, the ranges that
\* convert_ai_filters_to_app_filters produces from the statistics of a data
\* set admit every alternative of that data set: the six inclusive range
\* filters prune nothing.
C29_DefaultRangesAdmitEveryRow ==
    (cpc = "filtered" /\ ai_filters = EmptyDict) => filtered_df = Some(dataset)

(***************************************************************************)
(* Claims about dominance between scored alternatives (SpecSaw).           *)
(***************************************************************************)
\* row a is at least as good as row b on every criterion of the frame: its
\* cost values are no higher and its benefit values are no lower
Dominates(a, b) ==
    \A col \in DOMAIN a :
        IF CRITERIA_CONFIG(col) = "cost" THEN a[col] <= b[col] ELSE a[col] >= b[col]

\* C30: scoring is monotone under dominance: for non-negative weights and any
\* two alternatives scored together, if a's price is no higher than b's and
\* each of a's benefit values is no lower than b's, then a's score is at
\* least b's, so b is never ranked above a with a strictly higher score.
C30_DominanceMonotone ==
    spc = "scored" =>
        \A a, b \in DOMAIN df :
            Dominates(df[a], df[b]) => RatLeq(scores[b], scores[a])

\* two alternatives scored under positive weights, the second cheaper and with
\* more RAM than the first, and scored strictly higher
C30_Witness ==
    /\ spc = "scored" /\ Len(df) = 2
    /\ df[2].price_numeric < df[1].price_numeric /\ df[2].ram_numeric > df[1].ram_numeric
    /\ df[2].price_numeric > 0
    /\ \A k \in DfColumns : k \in DOMAIN weights /\ RatLt(Zero, weights[k])
    /\ RatLt(scores[1], scores[2])

====
